---- MODULE Spec2Model ----
(***************************************************************************)
(* Turn orchestration of simple-ralph: the task-execution loop             *)
(* (commands::build::run) and the interview loop (commands::plan::run),    *)
(* with the session store (plan::session::PlanSession).                    *)
(*                                                                         *)
(* One behaviour follows one workflow, chosen in Init.  A step is the code *)
(* that runs between two points where the program waits for the outside    *)
(* world: a key press, the exit of the child process, the end of a backoff *)
(* wait.                                                                    *)
(***************************************************************************)
EXTENDS Integers, Sequences, FiniteSets, TLC

VARIABLES
    workflow,       \* "build" or "plan": which command this behaviour runs
    pc,             \* where the running command waits
    children,       \* child agent processes spawned and neither exited nor killed
    \* ---- build::run
    max_loops,      \* argument of build::run
    app,            \* App: loop_count, should_quit, iteration_logs,
                    \* log_scroll_offset
    retry_count,    \* local of build::run
    delay,          \* local of build::run: length of the backoff wait in progress
    \* ---- history of the current build turn
    attempts,       \* classification of every invocation of the turn, in order
    delays,         \* backoff waits of the turn that ran to their deadline, in order
    spawned,        \* child processes spawned in the turn
    turn_end,       \* how the turn's retry loop was left ("none" while inside it)
    spawn_total,    \* child processes spawned since the behaviour started
    interrupted,    \* where Ctrl+C was delivered: "no", "running", "backoff"
    \* ---- plan::run and the files it works on
    session_file,   \* .ralph-session.json: <<>> when absent, else <<its content>>
    output_file,    \* the final artifact exists at the output path
    origin,         \* branch of load_or_create the run took: "new", "loaded", "forced"
    session,        \* the PlanSession owned by plan::run
    papp,           \* PlanApp
    initial_prompt, \* local of plan::run: which builder made the initial prompt
    prompt,         \* prompt of the last child spawned by plan::run
    next_id,        \* source of fresh session identifiers (Uuid::new_v4)
    \* ---- history of plan::run
    runs,           \* invocations of plan::run so far
    result,         \* what the last plan::run returned
    exit_reason,    \* which exit of plan::run was taken
    completed,      \* turns of this run whose child process exited
    loaded_turns,   \* session.turn_count when this run entered its loop
    complete_seen,  \* a response of this run declared Complete: "no", "prd", "no_prd"
    wrote_output,   \* this run wrote the artifact
    tui_inits,      \* calls of tui::init_terminal made by this run
    \* ---- a second process
    observed,       \* what another process found when it last read the session file
    cleanups,       \* calls of PlanSession::cleanup made in a row, just now
    \* ---- run_claude_iteration on its own
    output,         \* wait_with_output of the last child: <<>> before any exited
    \* ---- normalize_json_with_haiku on its own
    normalized,     \* the last call: its arguments, what the secondary process
                    \* did and the Result returned; <<>> before any call
    \* ---- build::run with the keys the user pressed
    keys            \* the keys read so far, in order, each with the wait that read it

vars == <<workflow, pc, children, max_loops, app, retry_count, delay,
          attempts, delays, spawned, turn_end, spawn_total, interrupted,
          session_file, output_file, origin, session, papp, initial_prompt,
          prompt, next_id, runs, result, exit_reason, completed, loaded_turns, tui_inits, complete_seen,
          wrote_output, observed, cleanups, output, normalized, keys>>

\* what the two commands never touch
probe == <<observed, cleanups, output, normalized, keys>>

buildVars == <<max_loops, app, retry_count, delay, attempts, delays, spawned,
               turn_end>>

planVars == <<session_file, output_file, origin, session, papp, initial_prompt,
              prompt, next_id, runs, result, exit_reason, completed, loaded_turns, tui_inits, complete_seen,
              wrote_output>>

planHistory == <<runs, result, exit_reason, completed, loaded_turns, tui_inits,
                 complete_seen, wrote_output>>

(***************************************************************************)
(* Bounds of the model and constants of the program.                       *)
(***************************************************************************)
MaxLoops == 2

\* invocations of plan::run in one behaviour
MaxRuns == 2

\* child processes spawned by plan::run in one behaviour
MaxTurns == 3

\* characters the user types into the freeform input
MaxInput == 1

\* the session store on its own: sessions created, turns advanced, answers added
MaxSessions == 2

MaxStoreTurns == 1

MaxAnswers == 2

MaxCleanups == 2

\* requirements a session accumulates by merging
MaxReqs == 2

\* tokens in the stdout of the secondary process of normalize_json_with_haiku
MaxOut == 5

\* stop, resume and scroll keys recorded in one behaviour of build::run
MaxKeys == 2

MAX_RETRIES == 5

BASE_RETRY_DELAY_SECS == 5

(***************************************************************************)
(* Output of one child process, as far as the classifier looks at it.      *)
(***************************************************************************)
ChildOutputs ==
    { o \in [ stdout_blank     : BOOLEAN,   \* stdout.trim().is_empty()
              decodes          : BOOLEAN,   \* stdout parses as ClaudeJsonOutput
              has_payload      : BOOLEAN,   \* structured_output is Some
              is_error         : BOOLEAN,   \* wrapper.is_error
              prd_complete     : BOOLEAN,   \* structured_output.prd_complete
              stdout_retryable : BOOLEAN,   \* is_retryable_error(stdout)
              stderr_retryable : BOOLEAN,   \* is_retryable_error(stderr)
              stderr_blank     : BOOLEAN ]  \* stderr.trim().is_empty()
        : /\ o.stdout_blank => ~o.decodes /\ ~o.stdout_retryable
          /\ ~o.decodes => ~o.has_payload /\ ~o.is_error
          /\ ~o.has_payload => ~o.prd_complete
          /\ o.stderr_blank => ~o.stderr_retryable }

\* ClaudeResult: its variant, what its String carries ("raw" is stdout as it
\* is, the other values name the format! that wraps it), and prd_complete of
\* the payload
Result(kind, msg, prd_complete) ==
    [kind |-> kind, msg |-> msg, prd_complete |-> prd_complete]

\* a classification that takes silence on both streams for unparsable output
Classify_EmptyIsParseError(o) ==
    IF o.stdout_blank
    THEN IF o.stderr_retryable
         THEN Result("TransientError", "api_error_stderr", FALSE)
         ELSE IF ~o.stderr_blank
              THEN Result("TransientError", "empty_with_stderr", FALSE)
              ELSE Result("ParseError", "empty", FALSE)
    ELSE IF o.decodes
         THEN IF o.has_payload
              THEN Result("Success", "payload", o.prd_complete)
              ELSE IF o.is_error
                   THEN IF o.stdout_retryable
                        THEN Result("TransientError", "api_error_stdout", FALSE)
                        ELSE Result("ClaudeError", "raw", FALSE)
                   ELSE Result("ParseError", "no_structured_output", FALSE)
         ELSE Result("ParseError", "parse_error", FALSE)

\* a classification that does not scan the envelope of an error for indicators
Classify_ErrorIsAlwaysFatal(o) ==
    IF o.stdout_blank
    THEN IF o.stderr_retryable
         THEN Result("TransientError", "api_error_stderr", FALSE)
         ELSE IF ~o.stderr_blank
              THEN Result("TransientError", "empty_with_stderr", FALSE)
              ELSE Result("TransientError", "empty", FALSE)
    ELSE IF o.decodes
         THEN IF o.has_payload
              THEN Result("Success", "payload", o.prd_complete)
              ELSE IF o.is_error
                   THEN Result("ClaudeError", "raw", FALSE)
                   ELSE Result("ParseError", "no_structured_output", FALSE)
         ELSE Result("ParseError", "parse_error", FALSE)

\* a classification that looks at the error flag before the payload
Classify_ErrorFlagFirst(o) ==
    IF o.stdout_blank
    THEN IF o.stderr_retryable
         THEN Result("TransientError", "api_error_stderr", FALSE)
         ELSE IF ~o.stderr_blank
              THEN Result("TransientError", "empty_with_stderr", FALSE)
              ELSE Result("TransientError", "empty", FALSE)
    ELSE IF o.decodes
         THEN IF o.is_error
              THEN IF o.stdout_retryable
                   THEN Result("TransientError", "api_error_stdout", FALSE)
                   ELSE Result("ClaudeError", "raw", FALSE)
              ELSE IF o.has_payload
                   THEN Result("Success", "payload", o.prd_complete)
                   ELSE Result("ParseError", "no_structured_output", FALSE)
         ELSE Result("ParseError", "parse_error", FALSE)

\* run_claude_iteration, from wait_with_output on: the ClaudeResult of an output
Classify(o) ==
    IF o.stdout_blank
    THEN IF o.stderr_retryable
         THEN Result("TransientError", "api_error_stderr", FALSE)
         ELSE IF ~o.stderr_blank
              THEN Result("TransientError", "empty_with_stderr", FALSE)
              ELSE Result("TransientError", "empty", FALSE)
    ELSE IF o.decodes
         THEN IF o.has_payload
              THEN Result("Success", "payload", o.prd_complete)
              ELSE IF o.is_error
                   THEN IF o.stdout_retryable
                        THEN Result("TransientError", "api_error_stdout", FALSE)
                        ELSE Result("ClaudeError", "raw", FALSE)
                   ELSE Result("ParseError", "no_structured_output", FALSE)
         ELSE Result("ParseError", "parse_error", FALSE)

\* a backoff that grows linearly instead of doubling
BackoffDelay_Linear(rc) == BASE_RETRY_DELAY_SECS * rc

\* build::run, line 215: the wait before retry number rc
BackoffDelay(rc) == BASE_RETRY_DELAY_SECS * 2^(rc - 1)

\* the budget compared with >= instead of >
RetriesExceeded_OffByOne(rc) == rc >= MAX_RETRIES

\* build::run, line 283: the retry budget is used up
RetriesExceeded(rc) == rc > MAX_RETRIES

\* App::push_log
PushLog(a, entry) ==
    [a EXCEPT !.iteration_logs = Append(@, entry), !.log_scroll_offset = 0]

(***************************************************************************)
(* Data of the interview workflow.  An Option<T> is a sequence of length 0 *)
(* (None) or 1 (Some); a String is the sequence of its characters.         *)
(***************************************************************************)
None == <<>>

Some(x) == <<x>>

\* PlanPhase
Phases == {"Exploring", "Asking", "Working", "Complete"}

\* the questions a response of the model may carry
Q1 == [id |-> "q1", options |-> Some(<< <<"A">>, <<"B">> >>), allow_freeform |-> TRUE]

Q2 == [id |-> "q2", options |-> None, allow_freeform |-> FALSE]

Q3 == [id |-> "q3", options |-> Some(<< <<"C">>, <<"D">> >>), allow_freeform |-> FALSE]

\* a question whose option list is empty
Q4 == [id |-> "q4", options |-> Some(<<>>), allow_freeform |-> FALSE]

ResponseQuestions == {None, Some(<<>>), Some(<<Q1>>)}

\* PlanResponse, as far as plan::run reads it.  The agent of the model sends
\* questions only with phase Asking and a prd only with phase Complete.
PlanResponses ==
    { r \in [phase : Phases, questions : ResponseQuestions, context : {None},
             prd : BOOLEAN] :
        /\ r.questions # None => r.phase = "Asking"
        /\ r.prd => r.phase = "Complete" }

\* stdout of a child of plan::run: a PlanResponse, JSON that is no PlanResponse
\* (it starts with '{'), or text that does not start with '{'
PlanOutputs ==
    [kind : {"ok"}, response : PlanResponses]
    \cup [kind : {"malformed", "not_json"},
          response : {[phase |-> "Working", questions |-> None, context |-> None,
                       prd |-> FALSE]}]

\* PhaseContext::default
DefaultContext ==
    [codebase_summary |-> None, requirements |-> None, quality_gates |-> None,
     tasks |-> None, findings |-> None]

\* PlanSession::new
NewSession(id) ==
    [id |-> id, last_phase |-> "Exploring", turn_count |-> 0,
     context |-> DefaultContext, answers |-> <<>>]

\* the session before plan::run has created or loaded one
NoSession == NewSession(0)

\* PlanSession::is_fresh
IsFresh(sess) == sess.turn_count = 0

\* an advance that refuses to go back to Exploring from a later phase
Advance_NeverBackToExploring(sess, phase) ==
    [sess EXCEPT !.last_phase = IF phase = "Exploring" THEN @ ELSE phase,
                 !.turn_count = @ + 1]

\* PlanSession::advance
Advance(sess, phase) ==
    [sess EXCEPT !.last_phase = phase, !.turn_count = @ + 1]

\* PlanSession::add_answer
AddAnswer(sess, answer) == [sess EXCEPT !.answers = Append(@, answer)]

\* a merge that replaces the requirements like the other fields
MergeContext_ReplaceAll(sess, context) ==
    [sess EXCEPT !.context =
        [codebase_summary |-> IF context.codebase_summary # None
                              THEN context.codebase_summary ELSE @.codebase_summary,
         requirements |-> IF context.requirements # None
                          THEN context.requirements ELSE @.requirements,
         quality_gates |-> IF context.quality_gates # None
                           THEN context.quality_gates ELSE @.quality_gates,
         tasks |-> IF context.tasks # None THEN context.tasks ELSE @.tasks,
         findings |-> @.findings]]

\* PlanSession::merge_context
MergeContext(sess, context) ==
    [sess EXCEPT !.context =
        [codebase_summary |-> IF context.codebase_summary # None
                              THEN context.codebase_summary ELSE @.codebase_summary,
         requirements |-> IF context.requirements # None
                          THEN Some((IF @.requirements # None
                                     THEN @.requirements[1] ELSE <<>>)
                                    \o context.requirements[1])
                          ELSE @.requirements,
         quality_gates |-> IF context.quality_gates # None
                           THEN context.quality_gates ELSE @.quality_gates,
         tasks |-> IF context.tasks # None THEN context.tasks ELSE @.tasks,
         findings |-> @.findings]]

\* serde of PlanPhase, rename_all = "snake_case"
PhaseToJson(phase) ==
    CASE phase = "Exploring" -> "exploring"
      [] phase = "Asking" -> "asking"
      [] phase = "Working" -> "working"
      [] phase = "Complete" -> "complete"

PhaseFromJson(text) ==
    CASE text = "exploring" -> "Exploring"
      [] text = "asking" -> "Asking"
      [] text = "working" -> "Working"
      [] text = "complete" -> "Complete"

\* a record written with the answers in reverse order
Serialize_AnswersReversed(sess) ==
    [id |-> sess.id, last_phase |-> PhaseToJson(sess.last_phase),
     turn_count |-> sess.turn_count, context |-> sess.context,
     answers |-> [i \in 1..Len(sess.answers) |->
                    sess.answers[Len(sess.answers) + 1 - i]]]

\* serde_json::to_string_pretty(self) in PlanSession::save
Serialize(sess) ==
    [id |-> sess.id, last_phase |-> PhaseToJson(sess.last_phase),
     turn_count |-> sess.turn_count, context |-> sess.context,
     answers |-> sess.answers]

\* serde_json::from_str in PlanSession::load_or_create
Deserialize(content) ==
    [id |-> content.id, last_phase |-> PhaseFromJson(content.last_phase),
     turn_count |-> content.turn_count, context |-> content.context,
     answers |-> content.answers]

\* PlanSession::save: the file after the write
Save(sess) == Some(Serialize(sess))

\* std::fs::write: the file between File::create, which truncates it, and
\* the end of write_all.  What is there is a prefix of the new content.
Truncated == [partial |-> TRUE]

\* the content is a whole record
IsWholeRecord(content) == "id" \in DOMAIN content

\* a cleanup that fails when there is no file
CleanupOk_NeedsFile(file) == file # None

\* PlanSession::cleanup: whether the call returns Ok
CleanupOk(file) == TRUE

\* a cleanup that removes nothing
Cleanup_Noop(file) == file

\* PlanSession::cleanup: the file after the call
Cleanup(file) == IF file # None THEN None ELSE file

\* without flags an existing record is replaced as with force
LoadOrCreate_ConflictOverwrites(file, resume, force, id) ==
    IF file # None
    THEN IF resume
         THEN [ok |-> TRUE, session |-> Deserialize(file[1]), file |-> file,
               branch |-> "loaded"]
         ELSE [ok |-> TRUE, session |-> NewSession(id), file |-> None,
               branch |-> "forced"]
    ELSE [ok |-> TRUE, session |-> NewSession(id), file |-> file, branch |-> "new"]

\* the conflict error is returned after the record has been removed
LoadOrCreate_ConflictDeletes(file, resume, force, id) ==
    IF file # None
    THEN IF resume
         THEN [ok |-> TRUE, session |-> Deserialize(file[1]), file |-> file,
               branch |-> "loaded"]
         ELSE IF force
              THEN [ok |-> TRUE, session |-> NewSession(id), file |-> None,
                    branch |-> "forced"]
              ELSE [ok |-> FALSE, session |-> NoSession, file |-> None,
                    branch |-> "conflict"]
    ELSE [ok |-> TRUE, session |-> NewSession(id), file |-> file, branch |-> "new"]

\* force returns a new session and leaves the old record on disk
LoadOrCreate_ForceKeepsRecord(file, resume, force, id) ==
    IF file # None
    THEN IF resume
         THEN [ok |-> TRUE, session |-> Deserialize(file[1]), file |-> file,
               branch |-> "loaded"]
         ELSE IF force
              THEN [ok |-> TRUE, session |-> NewSession(id), file |-> file,
                    branch |-> "forced"]
              ELSE [ok |-> FALSE, session |-> NoSession, file |-> file,
                    branch |-> "conflict"]
    ELSE [ok |-> TRUE, session |-> NewSession(id), file |-> file, branch |-> "new"]

\* PlanSession::load_or_create: the result, and the file after the call
LoadOrCreate(file, resume, force, id) ==
    IF file # None
    THEN IF resume
         THEN [ok |-> TRUE, session |-> Deserialize(file[1]), file |-> file,
               branch |-> "loaded"]
         ELSE IF force
              THEN [ok |-> TRUE, session |-> NewSession(id), file |-> None,
                    branch |-> "forced"]
              ELSE [ok |-> FALSE, session |-> NoSession, file |-> file,
                    branch |-> "conflict"]
    ELSE [ok |-> TRUE, session |-> NewSession(id), file |-> file, branch |-> "new"]

\* PlanApp::new
NewPlanApp ==
    [phase |-> "Exploring", awaiting_idea |-> FALSE, idea_input |-> <<>>,
     idea_cursor |-> 0, questions |-> <<>>, current_question |-> 0,
     selected |-> None, freeform_input |-> <<>>, cursor_position |-> 0,
     input_mode |-> "Normal", answers |-> <<>>, turn_count |-> 0,
     should_quit |-> FALSE, should_submit |-> FALSE]

(***************************************************************************)
(* PlanApp                                                                 *)
(***************************************************************************)
\* the part of set_questions and update_from_response that shows a question list
ShowQuestions(a, qs) ==
    [a EXCEPT !.questions = qs, !.current_question = 0, !.selected = Some(0),
              !.freeform_input = <<>>, !.cursor_position = 0]

\* PlanApp::update_from_response
UpdateFromResponse(a, resp) ==
    LET shown == IF resp.questions # None
                 THEN ShowQuestions(a, resp.questions[1]) ELSE a
    IN  [shown EXCEPT !.phase = resp.phase, !.turn_count = @ + 1]

\* PlanApp::set_questions
SetQuestions(a, qs) == ShowQuestions(a, qs)

\* PlanApp::current_question
CurrentQuestion(a) ==
    IF a.current_question < Len(a.questions)
    THEN Some(a.questions[a.current_question + 1]) ELSE None

\* the reset shared by next_question and prev_question
MoveToQuestion(a, i) ==
    [a EXCEPT !.current_question = i, !.selected = Some(0),
              !.freeform_input = <<>>, !.cursor_position = 0]

\* PlanApp::next_question
NextQuestion(a) ==
    IF a.current_question + 1 < Len(a.questions)
    THEN MoveToQuestion(a, a.current_question + 1) ELSE a

\* PlanApp::prev_question
PrevQuestion(a) ==
    IF a.current_question > 0 THEN MoveToQuestion(a, a.current_question - 1) ELSE a

\* option_list_state.selected().unwrap_or(0)
SelectedOr0(a) == IF a.selected # None THEN a.selected[1] ELSE 0

\* usize::MAX.  The value stands for 2^64 - 1, which the integers of the
\* model checker cannot hold; all the model does with it is compare it with
\* the length of a list.
UsizeMax == 2147483647

\* PlanApp::next_option; i + 1 at usize::MAX wraps to 0 without overflow checks
NextOption(a) ==
    LET q == CurrentQuestion(a) IN
    IF q # None /\ q[1].options # None
    THEN LET i == SelectedOr0(a)
             inc == IF i = UsizeMax THEN 0 ELSE i + 1
             next == IF inc >= Len(q[1].options[1]) THEN 0 ELSE inc
         IN  [a EXCEPT !.selected = Some(next)]
    ELSE a

\* PlanApp::prev_option, line 205: opts.len() - 1 is computed on an empty list.
\* The subtraction overflows: a panic in a build with overflow checks.
PrevOptionPanics(a) ==
    LET q == CurrentQuestion(a) IN
    /\ q # None /\ q[1].options # None
    /\ SelectedOr0(a) = 0 /\ Len(q[1].options[1]) = 0

\* PlanApp::prev_option in a build without overflow checks, where
\* opts.len() - 1 on an empty list wraps to usize::MAX
PrevOption(a) ==
    LET q == CurrentQuestion(a) IN
    IF q # None /\ q[1].options # None
    THEN LET i == SelectedOr0(a)
             len == Len(q[1].options[1])
             prev == IF i = 0 THEN (IF len = 0 THEN UsizeMax ELSE len - 1)
                     ELSE i - 1
         IN  [a EXCEPT !.selected = Some(prev)]
    ELSE a

\* position of the first answer to question id in a list of answers, 0 if none
FindAnswer(answers, id) ==
    IF \E i \in 1..Len(answers) : answers[i].question_id = id
    THEN CHOOSE i \in 1..Len(answers) :
            /\ answers[i].question_id = id
            /\ \A j \in 1..(i - 1) : answers[j].question_id # id
    ELSE 0

\* the value submit_answer takes for question q
AnswerValue(a, q) ==
    IF a.input_mode = "Editing" \/ q.options = None
    THEN a.freeform_input
    ELSE LET idx == SelectedOr0(a)
             opts == q.options[1]
         IN  IF idx < Len(opts) THEN opts[idx + 1] ELSE <<>>

\* a submit_answer that pushes without looking for an earlier answer
SubmitAnswer_AlwaysPush(a) ==
    IF a.current_question < Len(a.questions)
    THEN LET q == a.questions[a.current_question + 1]
             value == AnswerValue(a, q)
         IN  IF value # <<>>
             THEN [a EXCEPT !.answers =
                      Append(@, [question_id |-> q.id, value |-> value])]
             ELSE a
    ELSE a

\* PlanApp::submit_answer
SubmitAnswer(a) ==
    IF a.current_question < Len(a.questions)
    THEN LET q == a.questions[a.current_question + 1]
             value == AnswerValue(a, q)
             at == FindAnswer(a.answers, q.id)
         IN  IF value # <<>>
             THEN IF at # 0
                  THEN [a EXCEPT !.answers[at].value = value]
                  ELSE [a EXCEPT !.answers =
                           Append(@, [question_id |-> q.id, value |-> value])]
             ELSE a
    ELSE a

\* PlanApp::enter_editing
EnterEditing(a) == [a EXCEPT !.input_mode = "Editing"]

\* a key i that starts editing on any question
KeyI_Always(a) ==
    IF a.current_question < Len(a.questions) THEN EnterEditing(a) ELSE a

\* a key i that looks at the allow_freeform flag only
KeyI_FlagOnly(a) ==
    IF a.current_question < Len(a.questions)
          /\ a.questions[a.current_question + 1].allow_freeform
    THEN EnterEditing(a) ELSE a

\* collect_answers, Normal mode, key i: editing starts if the question shown
\* takes freeform input
KeyI(a) ==
    IF a.current_question < Len(a.questions)
          /\ (a.questions[a.current_question + 1].allow_freeform
                \/ a.questions[a.current_question + 1].options = None)
    THEN EnterEditing(a) ELSE a

\* PlanApp::exit_editing
ExitEditing(a) == [a EXCEPT !.input_mode = "Normal"]

\* String::insert
InsertAt(str, i, c) == SubSeq(str, 1, i) \o <<c>> \o SubSeq(str, i + 1, Len(str))

\* String::remove
RemoveAt(str, i) == SubSeq(str, 1, i) \o SubSeq(str, i + 2, Len(str))

\* PlanApp::enter_char
EnterChar(a, c) ==
    [a EXCEPT !.freeform_input = InsertAt(@, a.cursor_position, c),
              !.cursor_position = @ + 1]

\* PlanApp::delete_char
DeleteChar(a) ==
    IF a.cursor_position > 0
    THEN [a EXCEPT !.cursor_position = @ - 1,
                   !.freeform_input = RemoveAt(@, a.cursor_position - 1)]
    ELSE a

\* PlanApp::move_cursor_left
MoveCursorLeft(a) ==
    IF a.cursor_position > 0 THEN [a EXCEPT !.cursor_position = @ - 1] ELSE a

\* PlanApp::move_cursor_right
MoveCursorRight(a) ==
    IF a.cursor_position < Len(a.freeform_input)
    THEN [a EXCEPT !.cursor_position = @ + 1] ELSE a

\* PlanApp::all_answered
AllAnswered(a) ==
    /\ a.questions # <<>>
    /\ \A i \in 1..Len(a.questions) :
          \E j \in 1..Len(a.answers) : a.answers[j].question_id = a.questions[i].id

\* PlanApp::reset_submit
ResetSubmit(a) == [a EXCEPT !.should_submit = FALSE]

\* plan::run, lines 237-239: every answer of the round is added to the session
RECURSIVE AddAnswers(_, _)
AddAnswers(sess, answers) ==
    IF answers = <<>> THEN sess
    ELSE AddAnswers(AddAnswer(sess, Head(answers)), Tail(answers))

\* the prompt of a turn: which builder made it, and the answers it lists
Prompt(kind, answers) == [kind |-> kind, answers |-> answers]

(***************************************************************************)
(* Initial state.  build: the command has parsed its arguments and not yet *)
(* entered its loop.  plan: no invocation yet, nothing on disk.            *)
(***************************************************************************)
\* every variable but workflow, pc and max_loops, before anything has run
Blank ==
    /\ children = 0
    /\ app = [loop_count |-> 0, should_quit |-> FALSE, iteration_logs |-> <<>>,
              log_scroll_offset |-> 0]
    /\ retry_count = 0
    /\ delay = 0
    /\ attempts = <<>>
    /\ delays = <<>>
    /\ spawned = 0
    /\ turn_end = "none"
    /\ spawn_total = 0
    /\ interrupted = "no"
    /\ session_file = None
    /\ output_file = FALSE
    /\ origin = "none"
    /\ session = NoSession
    /\ papp = NewPlanApp
    /\ prompt = Prompt("none", <<>>)
    /\ initial_prompt = "none"
    /\ next_id = 1
    /\ runs = 0
    /\ result = "none"
    /\ exit_reason = "none"
    /\ completed = 0
    /\ loaded_turns = 0
    /\ complete_seen = "no"
    /\ wrote_output = FALSE
    /\ tui_inits = 0
    /\ observed = "nothing"
    /\ cleanups = 0
    /\ output = None
    /\ normalized = None
    /\ keys = <<>>

Init ==
    /\ workflow \in {"build", "plan"}
    /\ pc = IF workflow = "build" THEN "outer" ELSE "idle"
    /\ max_loops \in IF workflow = "build" THEN 0..MaxLoops ELSE {0}
    /\ Blank

(***************************************************************************)
(* build::run                                                              *)
(***************************************************************************)
\* launch_claude_with_options at the head of run_claude_iteration
SpawnChild ==
    /\ children' = children + 1
    /\ spawned' = spawned + 1
    /\ spawn_total' = spawn_total + 1

\* a while condition that looks at the ceiling only
BuildStartTurn_IgnoresStop ==
    /\ workflow = "build" /\ pc = "outer"
    /\ app.loop_count < max_loops
    /\ app' = [app EXCEPT !.loop_count = @ + 1]
    /\ retry_count' = 0
    /\ children' = children + 1
    /\ spawned' = 1
    /\ spawn_total' = spawn_total + 1
    /\ attempts' = <<>>
    /\ delays' = <<>>
    /\ turn_end' = "none"
    /\ pc' = "running"
    /\ UNCHANGED <<workflow, max_loops, delay, interrupted>>
    /\ UNCHANGED <<planVars, probe>>

\* the outer while condition holds: a turn starts and its first attempt is spawned
BuildStartTurn ==
    /\ workflow = "build" /\ pc = "outer"
    /\ ~app.should_quit /\ app.loop_count < max_loops
    /\ app' = [app EXCEPT !.loop_count = @ + 1]
    /\ retry_count' = 0
    /\ children' = children + 1
    /\ spawned' = 1
    /\ spawn_total' = spawn_total + 1
    /\ attempts' = <<>>
    /\ delays' = <<>>
    /\ turn_end' = "none"
    /\ pc' = "running"
    /\ UNCHANGED <<workflow, max_loops, delay, interrupted>>
    /\ UNCHANGED <<planVars, probe>>

\* the outer while condition fails: the command prints its summary and returns
BuildLoopExit ==
    /\ workflow = "build" /\ pc = "outer"
    /\ app.should_quit \/ app.loop_count >= max_loops
    /\ pc' = "done"
    /\ UNCHANGED <<workflow, children, buildVars, spawn_total, interrupted>>
    /\ UNCHANGED <<planVars, probe>>

\* run_claude_iteration, Ctrl+C while the child runs: kill, Interrupted, break
RunKeyCtrlC ==
    /\ workflow = "build" /\ pc = "running"
    /\ children' = children - 1
    /\ app' = [app EXCEPT !.should_quit = TRUE]
    /\ attempts' = Append(attempts, "Interrupted")
    /\ turn_end' = "Interrupted"
    /\ interrupted' = "running"
    /\ pc' = "outer"
    /\ UNCHANGED <<workflow, max_loops, retry_count, delay, delays, spawned,
                   spawn_total>>
    /\ UNCHANGED <<planVars, probe>>

\* run_claude_iteration, q: quit after the child finishes
RunKeyQ ==
    /\ workflow = "build" /\ pc = "running"
    /\ app' = [app EXCEPT !.should_quit = TRUE]
    /\ UNCHANGED <<workflow, pc, children, max_loops, retry_count, delay, attempts,
                   delays, spawned, turn_end, spawn_total, interrupted>>
    /\ UNCHANGED <<planVars, probe>>

\* run_claude_iteration, r: cancel the quit request
RunKeyR ==
    /\ workflow = "build" /\ pc = "running"
    /\ app' = [app EXCEPT !.should_quit = FALSE]
    /\ UNCHANGED <<workflow, pc, children, max_loops, retry_count, delay, attempts,
                   delays, spawned, turn_end, spawn_total, interrupted>>
    /\ UNCHANGED <<planVars, probe>>

\* the match on the ClaudeResult of an attempt whose child exited
HandleResult(res) ==
    /\ attempts' = Append(attempts, res.kind)
    /\ CASE res.kind = "Success" ->
              /\ app' = [PushLog(app, "success") EXCEPT
                            !.should_quit = IF res.prd_complete THEN TRUE ELSE @]
              /\ turn_end' = "Success"
              /\ pc' = "outer"
              /\ UNCHANGED <<retry_count, delay>>
         [] res.kind = "ClaudeError" ->
              /\ app' = PushLog(app, "claude_error")
              /\ turn_end' = "ClaudeError"
              /\ pc' = "outer"
              /\ UNCHANGED <<retry_count, delay>>
         [] res.kind = "ParseError" ->
              /\ app' = PushLog(app, "parse_error")
              /\ turn_end' = "ParseError"
              /\ pc' = "outer"
              /\ UNCHANGED <<retry_count, delay>>
         [] res.kind = "TransientError" ->
              /\ retry_count' = retry_count + 1
              /\ IF RetriesExceeded(retry_count + 1)
                 THEN /\ app' = PushLog(app, "failed_after_retries")
                      /\ turn_end' = "RetriesExhausted"
                      /\ pc' = "outer"
                      /\ UNCHANGED delay
                 ELSE /\ app' = PushLog(app, "transient_will_retry")
                      /\ delay' = BackoffDelay(retry_count + 1)
                      /\ pc' = "backoff"
                      /\ UNCHANGED turn_end

\* run_claude_iteration: the child exits with output o, which is collected and
\* classified, and build::run matches on the result
ChildExited(o) ==
    /\ workflow = "build" /\ pc = "running"
    /\ children' = children - 1
    /\ HandleResult(Classify(o))
    /\ UNCHANGED <<workflow, max_loops, delays, spawned, spawn_total, interrupted>>
    /\ UNCHANGED planVars

\* the child exits with any output
RunChildExit ==
    /\ \E o \in ChildOutputs : ChildExited(o)
    /\ UNCHANGED probe

\* Ctrl+C ends the wait but the check of should_quit after it is missing
BackoffKeyCtrlC_NoBreak ==
    /\ workflow = "build" /\ pc = "backoff"
    /\ app' = [app EXCEPT !.should_quit = TRUE]
    /\ interrupted' = "backoff"
    /\ SpawnChild
    /\ pc' = "running"
    /\ UNCHANGED <<workflow, max_loops, retry_count, delay, attempts, delays,
                   turn_end>>
    /\ UNCHANGED <<planVars, probe>>

\* the backoff wait, Ctrl+C: the wait and the retry loop are left
BackoffKeyCtrlC ==
    /\ workflow = "build" /\ pc = "backoff"
    /\ app' = [app EXCEPT !.should_quit = TRUE]
    /\ turn_end' = "Interrupted"
    /\ interrupted' = "backoff"
    /\ pc' = "outer"
    /\ UNCHANGED <<workflow, children, max_loops, retry_count, delay, attempts,
                   delays, spawned, spawn_total>>
    /\ UNCHANGED <<planVars, probe>>

\* the backoff wait, any other key: read and dropped
BackoffKeyOther ==
    /\ workflow = "build" /\ pc = "backoff"
    /\ \E key \in {"q", "r", "Up", "Down"} : UNCHANGED vars

\* a backoff wait that goes on to the next attempt whatever should_quit says
BackoffDeadline_IgnoresStop ==
    /\ workflow = "build" /\ pc = "backoff"
    /\ delays' = Append(delays, delay)
    /\ SpawnChild
    /\ pc' = "running"
    /\ UNCHANGED <<workflow, max_loops, app, retry_count, delay, attempts,
                   interrupted, turn_end>>
    /\ UNCHANGED <<planVars, probe>>

\* a retry that counts as a turn of its own
BackoffDeadline_CountsRetry ==
    /\ workflow = "build" /\ pc = "backoff"
    /\ delays' = Append(delays, delay)
    /\ IF app.should_quit
       THEN /\ turn_end' = "StopRequested"
            /\ pc' = "outer"
            /\ UNCHANGED <<app, children, spawned, spawn_total>>
       ELSE /\ SpawnChild
            /\ app' = [app EXCEPT !.loop_count = @ + 1]
            /\ pc' = "running"
            /\ UNCHANGED turn_end
    /\ UNCHANGED <<workflow, max_loops, retry_count, delay, attempts,
                   interrupted>>
    /\ UNCHANGED <<planVars, probe>>

\* the backoff wait reaches its deadline: stop if asked to, else the next attempt
BackoffDeadline ==
    /\ workflow = "build" /\ pc = "backoff"
    /\ delays' = Append(delays, delay)
    /\ IF app.should_quit
       THEN /\ turn_end' = "StopRequested"
            /\ pc' = "outer"
            /\ UNCHANGED <<children, spawned, spawn_total>>
       ELSE /\ SpawnChild
            /\ pc' = "running"
            /\ UNCHANGED turn_end
    /\ UNCHANGED <<workflow, max_loops, app, retry_count, delay, attempts,
                   interrupted>>
    /\ UNCHANGED <<planVars, probe>>

(***************************************************************************)
(* plan::run                                                               *)
(***************************************************************************)
buildFrame == <<workflow, max_loops, app, retry_count, delay, attempts, delays,
                spawned, turn_end>>

\* plan::run returns: its locals app and initial_prompt are dropped, the
\* terminal is restored and the value is handed to main
Return(value, reason) ==
    /\ pc' = "idle"
    /\ papp' = NewPlanApp
    /\ initial_prompt' = "none"
    /\ result' = value
    /\ exit_reason' = reason

\* plan::run from its entry to its first wait, in the order of the code: the
\* check of the output file, load_or_create, init_terminal, and either the
\* idea screen or the head of the main loop
PlanEntry(resume, force, request) ==
    LET loaded == LoadOrCreate(session_file, resume, force, next_id) IN
    /\ workflow = "plan" /\ pc = "idle" /\ runs < MaxRuns
    /\ runs' = runs + 1
    /\ completed' = 0
    /\ complete_seen' = "no"
    /\ wrote_output' = FALSE
    /\ interrupted' = "no"
    /\ IF output_file /\ ~resume /\ ~force
       THEN /\ Return("OutputExists", "conflict")
            /\ origin' = "none"
            /\ tui_inits' = 0
            /\ UNCHANGED <<session_file, session, next_id, loaded_turns>>
       ELSE IF ~loaded.ok
       THEN /\ Return("SessionExists", "conflict")
            /\ session_file' = loaded.file
            /\ origin' = "none"
            /\ tui_inits' = 0
            /\ UNCHANGED <<session, next_id, loaded_turns>>
       ELSE /\ session_file' = loaded.file
            /\ origin' = loaded.branch
            /\ session' = loaded.session
            /\ next_id' = IF loaded.branch = "loaded" THEN next_id ELSE next_id + 1
            /\ loaded_turns' = loaded.session.turn_count
            /\ tui_inits' = 1
            /\ result' = "running"
            /\ exit_reason' = "none"
            /\ IF request
               THEN /\ papp' = [NewPlanApp EXCEPT
                                  !.turn_count = loaded.session.turn_count]
                    /\ initial_prompt' =
                          IF IsFresh(loaded.session) THEN "initial" ELSE "resume"
                    /\ pc' = "top"
               ELSE /\ papp' = [NewPlanApp EXCEPT !.awaiting_idea = TRUE]
                    /\ initial_prompt' = "none"
                    /\ pc' = "idea"
    /\ UNCHANGED <<buildFrame, children, spawn_total, output_file, prompt>>

\* an invocation of the plan command with any flags, with or without a request
PlanInvoke ==
    /\ \E resume \in BOOLEAN, force \in BOOLEAN, request \in BOOLEAN :
          PlanEntry(resume, force, request)
    /\ UNCHANGED probe

\* collect_idea, a character key
IdeaChar ==
    /\ workflow = "plan" /\ pc = "idea"
    /\ Len(papp.idea_input) < MaxInput
    /\ \E c \in {"x"} :
        papp' = [papp EXCEPT !.idea_input = InsertAt(@, papp.idea_cursor, c),
                             !.idea_cursor = @ + 1]
    /\ UNCHANGED <<probe, buildFrame, pc, children, spawn_total, interrupted, session_file,
                   output_file, origin, session, initial_prompt, prompt, next_id,
                   planHistory>>

\* collect_idea, Backspace, Left and Right
IdeaEdit ==
    /\ workflow = "plan" /\ pc = "idea"
    /\ \E key \in {"Backspace", "Left", "Right"} :
        papp' =
          CASE key = "Backspace" /\ papp.idea_cursor > 0 ->
                 [papp EXCEPT !.idea_cursor = @ - 1,
                              !.idea_input = RemoveAt(@, papp.idea_cursor - 1)]
            [] key = "Left" /\ papp.idea_cursor > 0 ->
                 [papp EXCEPT !.idea_cursor = @ - 1]
            [] key = "Right" /\ papp.idea_cursor < Len(papp.idea_input) ->
                 [papp EXCEPT !.idea_cursor = @ + 1]
            [] OTHER -> papp
    /\ UNCHANGED <<probe, buildFrame, pc, children, spawn_total, interrupted, session_file,
                   output_file, origin, session, initial_prompt, prompt, next_id,
                   planHistory>>

\* collect_idea, Enter on a non-empty idea: plan::run goes on to its main loop.
\* The idea goes into the initial prompt and nothing reads idea_input again:
\* the model forgets the text here.
IdeaEnter ==
    /\ workflow = "plan" /\ pc = "idea"
    /\ papp.idea_input # <<>>
    /\ papp' = [papp EXCEPT !.awaiting_idea = FALSE,
                            !.idea_input = <<>>, !.idea_cursor = 0,
                            !.turn_count = session.turn_count]
    /\ initial_prompt' = IF IsFresh(session) THEN "initial" ELSE "resume"
    /\ pc' = "top"
    /\ UNCHANGED <<probe, buildFrame, children, spawn_total, interrupted, session_file,
                   output_file, origin, session, prompt, next_id, planHistory>>

\* collect_idea, Esc: plan::run returns Ok without entering its loop
IdeaEsc ==
    /\ workflow = "plan" /\ pc = "idea"
    /\ Return("Ok", "idea_cancelled")
    /\ UNCHANGED <<probe, buildFrame, children, spawn_total, interrupted, session_file,
                   output_file, origin, session, prompt, next_id,
                   runs, completed, loaded_turns, tui_inits, complete_seen, wrote_output>>

\* plan::run, lines 89-95: the prompt of the turn
TurnPrompt(sess, a, initial) ==
    IF IsFresh(sess) THEN Prompt(initial, <<>>)
    ELSE IF a.answers # <<>> THEN Prompt("continuation", a.answers)
    ELSE Prompt("continue", <<>>)

\* a prompt built from a copy of the answers, which stay in the PlanApp
AfterPrompt_KeepsAnswers(sess, a) == a

\* PlanApp::take_answers, called only when the continuation prompt is built
AfterPrompt(sess, a) ==
    IF ~IsFresh(sess) /\ a.answers # <<>> THEN [a EXCEPT !.answers = <<>>] ELSE a

\* head of the main loop: the prompt is built and the child is launched
PlanSpawn ==
    /\ workflow = "plan" /\ pc = "top"
    /\ spawn_total < MaxTurns
    /\ prompt' = TurnPrompt(session, papp, initial_prompt)
    /\ papp' = AfterPrompt(session, papp)
    /\ children' = children + 1
    /\ spawn_total' = spawn_total + 1
    /\ pc' = "waiting"
    /\ UNCHANGED <<probe, buildFrame, interrupted, session_file, output_file, origin,
                   session, initial_prompt, next_id, planHistory>>

\* Ctrl+C leaves the wait without killing the child
PlanKeyCtrlC_NoKill ==
    /\ workflow = "plan" /\ pc = "waiting"
    /\ interrupted' = "waiting"
    /\ session_file' = Save(session)
    /\ Return("Ok", "interrupted")
    /\ UNCHANGED <<probe, buildFrame, children, spawn_total, output_file, origin, session,
                   prompt, next_id, runs, completed, loaded_turns, tui_inits,
                   complete_seen, wrote_output>>

\* Ctrl+C returns without saving the session
PlanKeyCtrlC_NoSave ==
    /\ workflow = "plan" /\ pc = "waiting"
    /\ children' = children - 1
    /\ interrupted' = "waiting"
    /\ Return("Ok", "interrupted")
    /\ UNCHANGED <<probe, buildFrame, spawn_total, session_file, output_file, origin,
                   session, prompt, next_id, runs, completed, loaded_turns, tui_inits,
                   complete_seen, wrote_output>>

\* waiting for the child, Ctrl+C: kill, leave the wait, save the session, return
PlanKeyCtrlC ==
    /\ workflow = "plan" /\ pc = "waiting"
    /\ children' = children - 1
    /\ interrupted' = "waiting"
    /\ session_file' = Save(session)
    /\ Return("Ok", "interrupted")
    /\ UNCHANGED <<probe, buildFrame, spawn_total, output_file, origin, session,
                   prompt, next_id, runs, completed, loaded_turns, tui_inits,
                   complete_seen, wrote_output>>

\* waiting for the child, q: quit once the child has finished
PlanKeyQ ==
    /\ workflow = "plan" /\ pc = "waiting"
    /\ papp' = [papp EXCEPT !.should_quit = TRUE]
    /\ UNCHANGED <<probe, buildFrame, pc, children, spawn_total, interrupted, session_file,
                   output_file, origin, session, initial_prompt, prompt, next_id,
                   planHistory>>

\* a Complete response without prd sends the loop round again
NextStep_CompleteNeedsPrd(resp) ==
    CASE resp.phase = "Complete" /\ resp.prd -> "wait_key"
      [] resp.phase = "Asking" /\ resp.questions # None -> "asking"
      [] OTHER -> "top"

\* plan::run, the match on response.phase: where the loop waits next
NextStep(resp) ==
    CASE resp.phase = "Complete" -> "wait_key"
      [] resp.phase = "Asking" /\ resp.questions # None -> "asking"
      [] OTHER -> "top"

\* plan::run, lines 185-249: a response that parsed
HandleResponse(resp) ==
    LET shown == UpdateFromResponse(papp, resp)
        advanced == IF resp.context # None
                    THEN MergeContext(Advance(session, resp.phase), resp.context[1])
                    ELSE Advance(session, resp.phase)
        saved == Save(advanced)
    IN  /\ session' = advanced
        /\ pc' = NextStep(resp)
        /\ CASE resp.phase = "Complete" ->
                  /\ papp' = shown
                  /\ complete_seen' = IF resp.prd THEN "prd" ELSE "no_prd"
                  /\ IF resp.prd
                     THEN /\ output_file' = TRUE
                          /\ wrote_output' = TRUE
                          /\ session_file' = Cleanup(saved)
                     ELSE /\ session_file' = saved
                          /\ UNCHANGED <<output_file, wrote_output>>
             [] resp.phase = "Asking" ->
                  /\ session_file' = saved
                  /\ papp' = IF resp.questions # None
                             THEN ResetSubmit(SetQuestions(shown, resp.questions[1]))
                             ELSE shown
                  /\ UNCHANGED <<output_file, wrote_output, complete_seen>>
             [] resp.phase \in {"Exploring", "Working"} ->
                  /\ session_file' = saved
                  /\ papp' = shown
                  /\ UNCHANGED <<output_file, wrote_output, complete_seen>>
        /\ UNCHANGED <<initial_prompt, result, exit_reason>>

\* the child exits with stdout out: quit if asked to, else out is read and
\* handled
PlanChildExited(out) ==
    /\ workflow = "plan" /\ pc = "waiting"
    /\ children' = children - 1
    /\ completed' = completed + 1
    /\ IF papp.should_quit
       THEN /\ session_file' = Save(session)
            /\ Return("Ok", "quit")
            /\ UNCHANGED <<session, output_file, wrote_output, complete_seen>>
       ELSE CASE out.kind = "ok" -> HandleResponse(out.response)
              [] out.kind = "not_json" ->
                   /\ Return("InvalidOutput", "invalid_output")
                   /\ UNCHANGED <<session, session_file, output_file,
                                  wrote_output, complete_seen>>
              [] out.kind = "malformed" ->
                   /\ session' = Advance(session, "Working")
                   /\ session_file' = Save(Advance(session, "Working"))
                   /\ pc' = "top"
                   /\ UNCHANGED <<papp, initial_prompt, output_file, wrote_output,
                                  complete_seen, result, exit_reason>>
    /\ UNCHANGED <<buildFrame, spawn_total, interrupted, origin,
                   prompt, next_id, runs, loaded_turns, tui_inits>>

\* the child exits with any output
PlanChildExit ==
    /\ \E out \in PlanOutputs : PlanChildExited(out)
    /\ UNCHANGED probe

\* wait_for_key after phase Complete: any key ends the run
PlanCompleteKey ==
    /\ workflow = "plan" /\ pc = "wait_key"
    /\ Return("Ok", "complete")
    /\ UNCHANGED <<probe, buildFrame, children, spawn_total, interrupted, session_file,
                   output_file, origin, session, prompt,
                   next_id, runs, completed, loaded_turns, tui_inits, complete_seen,
                   wrote_output>>

(***************************************************************************)
(* collect_answers, one action per key                                     *)
(***************************************************************************)
\* what a key that only edits the PlanApp leaves alone
askFrame == <<probe, buildFrame, pc, children, spawn_total, interrupted, session_file,
              output_file, origin, session, initial_prompt, prompt, next_id,
              planHistory>>

Asking(mode) ==
    workflow \in {"plan", "ask"} /\ pc = "asking" /\ papp.input_mode = mode

\* Editing, Esc
AskEditEsc ==
    /\ Asking("Editing")
    /\ papp' = ExitEditing(papp)
    /\ UNCHANGED askFrame

\* Editing, Enter: the freeform answer is recorded and the next question shown
AskEditEnter ==
    /\ Asking("Editing")
    /\ LET left == ExitEditing(SubmitAnswer(papp))
       IN  papp' = IF left.current_question + 1 < Len(left.questions)
                   THEN NextQuestion(left) ELSE left
    /\ UNCHANGED askFrame

\* Editing, Backspace
AskEditBackspace ==
    /\ Asking("Editing")
    /\ papp' = DeleteChar(papp)
    /\ UNCHANGED askFrame

\* Editing, Left and Right
AskEditCursor ==
    /\ Asking("Editing")
    /\ \E key \in {"Left", "Right"} :
        papp' = IF key = "Left" THEN MoveCursorLeft(papp) ELSE MoveCursorRight(papp)
    /\ UNCHANGED askFrame

\* Editing, a character key
AskEditChar ==
    /\ Asking("Editing")
    /\ Len(papp.freeform_input) < MaxInput
    /\ \E c \in {"x"} : papp' = EnterChar(papp, c)
    /\ UNCHANGED askFrame

\* Normal, Ctrl+C or q: collect_answers returns, plan::run saves and returns
AskQuit ==
    /\ Asking("Normal")
    /\ \E key \in {"CtrlC", "q"} :
        /\ session_file' = Save(session)
        /\ Return("Ok", "quit_asking")
    /\ UNCHANGED <<probe, buildFrame, children, spawn_total, interrupted, output_file,
                   origin, session, prompt, next_id, runs, completed,
                   loaded_turns, tui_inits, complete_seen, wrote_output>>

\* a Ctrl+Enter that submits whatever has been answered
AskSubmit_Unchecked ==
    /\ Asking("Normal")
    /\ session' = AddAnswers(session, papp.answers)
    /\ papp' = ResetSubmit([papp EXCEPT !.should_submit = TRUE])
    /\ pc' = "top"
    /\ UNCHANGED <<probe, buildFrame, children, spawn_total, interrupted, session_file,
                   output_file, origin, initial_prompt, prompt, next_id,
                   planHistory>>

\* Normal, Ctrl+Enter with every question answered: the answers go to the
\* session and the main loop goes on to the next turn
AskSubmit ==
    /\ Asking("Normal")
    /\ AllAnswered(papp)
    /\ session' = AddAnswers(session, papp.answers)
    /\ papp' = ResetSubmit([papp EXCEPT !.should_submit = TRUE])
    /\ pc' = "top"
    /\ UNCHANGED <<probe, buildFrame, children, spawn_total, interrupted, session_file,
                   output_file, origin, initial_prompt, prompt, next_id,
                   planHistory>>

\* Normal, Ctrl+Enter with a question unanswered: only the status line changes
AskSubmitRefused ==
    /\ Asking("Normal")
    /\ ~AllAnswered(papp)
    /\ UNCHANGED vars

\* Normal, i: editing starts if the question takes freeform input
AskEdit ==
    /\ Asking("Normal")
    /\ papp' = KeyI(papp)
    /\ UNCHANGED askFrame

\* Normal, Up and Down.  Once the index has wrapped to usize::MAX the user of
\* the model presses Up no more: every further Up would count it down by one.
AskOption ==
    /\ Asking("Normal")
    /\ \E key \in {"Up", "Down"} :
        /\ key = "Up" => SelectedOr0(papp) # UsizeMax
        /\ papp' = IF key = "Up" THEN PrevOption(papp) ELSE NextOption(papp)
    /\ UNCHANGED askFrame

\* Normal, Tab and Shift+Tab
AskTab ==
    /\ Asking("Normal")
    /\ \E key \in {"Tab", "BackTab"} :
        papp' = IF key = "Tab"
                THEN IF papp.current_question + 1 < Len(papp.questions)
                     THEN NextQuestion(papp) ELSE papp
                ELSE PrevQuestion(papp)
    /\ UNCHANGED askFrame

\* Normal, Enter: the answer is recorded and the next question shown
AskEnter ==
    /\ Asking("Normal")
    /\ LET answered == SubmitAnswer(papp)
       IN  papp' = IF answered.current_question + 1 < Len(answered.questions)
                   THEN NextQuestion(answered) ELSE answered
    /\ UNCHANGED askFrame

PlanNext ==
    \/ PlanInvoke
    \/ IdeaChar
    \/ IdeaEdit
    \/ IdeaEnter
    \/ IdeaEsc
    \/ PlanSpawn
    \/ PlanKeyCtrlC
    \/ PlanKeyQ
    \/ PlanChildExit
    \/ PlanCompleteKey
    \/ AskEditEsc
    \/ AskEditEnter
    \/ AskEditBackspace
    \/ AskEditCursor
    \/ AskEditChar
    \/ AskQuit
    \/ AskSubmit
    \/ AskSubmitRefused
    \/ AskEdit
    \/ AskOption
    \/ AskTab
    \/ AskEnter

BuildNext ==
    \/ BuildStartTurn
    \/ BuildLoopExit
    \/ RunKeyCtrlC
    \/ RunKeyQ
    \/ RunKeyR
    \/ RunChildExit
    \/ BackoffKeyCtrlC
    \/ BackoffKeyOther
    \/ BackoffDeadline

Next == BuildNext \/ PlanNext

Spec == Init /\ [][Next]_vars

(***************************************************************************)
(* The session store on its own: the operations of PlanSession called in   *)
(* any order on one session file, as its unit tests do, while another      *)
(* process reads the file.                                                 *)
(***************************************************************************)
storeFrame == <<workflow, children, buildVars, spawn_total, interrupted,
                output_file, papp, initial_prompt, prompt, runs,
                exit_reason, completed, loaded_turns, tui_inits, complete_seen,
                wrote_output, output, normalized, keys>>

StoreInit ==
    /\ workflow = "store" /\ pc = "ready" /\ max_loops = 0
    /\ Blank

\* PlanSession::load_or_create(output, resume, force)
StoreLoad(resume, force) ==
    LET r == LoadOrCreate(session_file, resume, force, next_id) IN
    /\ workflow = "store" /\ pc = "ready"
    /\ r.branch \in {"new", "forced"} => next_id <= MaxSessions
    /\ session_file' = r.file
    /\ session' = IF r.ok THEN r.session ELSE session
    /\ next_id' = IF r.branch \in {"new", "forced"} THEN next_id + 1 ELSE next_id
    /\ origin' = r.branch
    /\ result' = IF r.ok THEN "Ok" ELSE "SessionExists"
    /\ cleanups' = 0
    /\ UNCHANGED <<storeFrame, pc, observed>>

StoreLoadOrCreate ==
    \E resume \in BOOLEAN, force \in BOOLEAN : StoreLoad(resume, force)

\* PlanSession::advance(phase)
StoreAdvance ==
    /\ workflow = "store" /\ pc = "ready" /\ session # NoSession
    /\ session.turn_count < MaxStoreTurns
    /\ \E phase \in Phases : session' = Advance(session, phase)
    /\ result' = "Ok"
    /\ cleanups' = 0
    /\ UNCHANGED <<storeFrame, pc, session_file, next_id, origin, observed>>

\* PlanSession::add_answer(answer); the model never adds the same value twice
\* in a row
StoreAddAnswer ==
    /\ workflow = "store" /\ pc = "ready" /\ session # NoSession
    /\ Len(session.answers) < MaxAnswers
    /\ \E v \in {<<"A">>, <<"B">>} :
        /\ (session.answers # <<>>) => v # session.answers[Len(session.answers)].value
        /\ session' = AddAnswer(session, [question_id |-> "q1", value |-> v])
    /\ result' = "Ok"
    /\ cleanups' = 0
    /\ UNCHANGED <<storeFrame, pc, session_file, next_id, origin, observed>>

\* PlanSession::merge_context(context), into a session without requirements
StoreMergeContext ==
    /\ workflow = "store" /\ pc = "ready" /\ session # NoSession
    /\ session.context.requirements = None
    /\ session' = MergeContext(session,
                     [DefaultContext EXCEPT !.requirements = Some(<<"R1">>)])
    /\ result' = "Ok"
    /\ cleanups' = 0
    /\ UNCHANGED <<storeFrame, pc, session_file, next_id, origin, observed>>

\* PlanSession::save, std::fs::write begins: File::create truncates the file
StoreSaveBegin ==
    /\ workflow = "store" /\ pc = "ready" /\ session # NoSession
    /\ session_file' = Some(Truncated)
    /\ pc' = "saving"
    /\ cleanups' = 0
    /\ UNCHANGED <<storeFrame, session, next_id, origin, result, observed>>

\* PlanSession::save, std::fs::write ends: the content is all there
StoreSaveEnd ==
    /\ workflow = "store" /\ pc = "saving"
    /\ session_file' = Save(session)
    /\ pc' = "ready"
    /\ result' = "Ok"
    /\ UNCHANGED <<storeFrame, session, next_id, origin, observed, cleanups>>

\* PlanSession::cleanup
StoreCleanup ==
    /\ workflow = "store" /\ pc = "ready" /\ session # NoSession
    /\ cleanups < MaxCleanups
    /\ session_file' = Cleanup(session_file)
    /\ result' = IF CleanupOk(session_file) THEN "Ok" ELSE "Err"
    /\ cleanups' = cleanups + 1
    /\ UNCHANGED <<storeFrame, pc, session, next_id, origin, observed>>

\* another process reads the session file
ReaderRead ==
    /\ workflow = "store"
    /\ observed' = IF session_file = None THEN "absent"
                   ELSE IF IsWholeRecord(session_file[1]) THEN "whole"
                   ELSE "partial"
    /\ UNCHANGED <<storeFrame, pc, session_file, session, next_id, origin,
                   result, cleanups>>

StoreNext ==
    \/ StoreLoadOrCreate
    \/ StoreAdvance
    \/ StoreAddAnswer
    \/ StoreMergeContext
    \/ StoreSaveBegin
    \/ StoreSaveEnd
    \/ StoreCleanup
    \/ ReaderRead

StoreSpec == StoreInit /\ [][StoreNext]_vars

(***************************************************************************)
(* merge_context on its own: contexts of any shape merged one after the    *)
(* other into one session, as the unit tests of session.rs do.             *)
(***************************************************************************)
\* the PhaseContext values a response can carry
Contexts ==
    [codebase_summary : {None, Some("X"), Some("Y")},
     requirements : {None, Some(<<>>), Some(<<"A">>), Some(<<"B">>)},
     quality_gates : {None, Some("G1"), Some("G2")},
     tasks : {None, Some("T")},
     findings : {None}]

\* the requirements of a context as a list, none when the field is absent
ReqList(context) ==
    IF context.requirements = None THEN <<>> ELSE context.requirements[1]

mergeFrame == <<storeFrame, pc, session_file, origin, result, probe>>

MergeInit ==
    /\ workflow = "merge" /\ pc = "ready" /\ max_loops = 0
    /\ Blank

\* PlanSession::new(output)
MergeNew ==
    /\ workflow = "merge" /\ session = NoSession
    /\ session' = NewSession(next_id)
    /\ next_id' = next_id + 1
    /\ UNCHANGED mergeFrame

\* PlanSession::merge_context(context)
MergeStep(context) ==
    /\ workflow = "merge" /\ session # NoSession
    /\ Len(ReqList(session.context)) + Len(ReqList(context)) <= MaxReqs
    /\ session' = MergeContext(session, context)
    /\ UNCHANGED <<mergeFrame, next_id>>

MergeAny == \E context \in Contexts : MergeStep(context)

MergeNext == MergeNew \/ MergeAny

MergeSpec == MergeInit /\ [][MergeNext]_vars

(***************************************************************************)
(* PlanApp on its own: its methods called in any order on one value, as    *)
(* the unit tests of plan/app.rs and the key handlers of collect_answers   *)
(* do.                                                                     *)
(***************************************************************************)
\* the question lists shown
QuestionLists == {<<Q1>>, <<Q1, Q2>>}

\* what the last submit_answer did: "ignored" (no question or empty value),
\* "pushed" (first answer to the question), "replaced" (an earlier answer with
\* another value overwritten), "resubmitted" (the same value again)
SubmitBranch(a) ==
    IF a.current_question >= Len(a.questions) THEN "ignored"
    ELSE LET q == a.questions[a.current_question + 1]
             value == AnswerValue(a, q)
             at == FindAnswer(a.answers, q.id)
         IN  IF value = <<>> THEN "ignored"
             ELSE IF at = 0 THEN "pushed"
             ELSE IF a.answers[at].value = value THEN "resubmitted"
             ELSE "replaced"

appFrame == <<workflow, pc, children, buildVars, spawn_total, interrupted,
              session_file, output_file, origin, session, initial_prompt,
              prompt, next_id, runs, exit_reason, completed, loaded_turns,
              tui_inits, complete_seen, wrote_output, probe>>

AppInit ==
    /\ workflow = "app" /\ pc = "ready" /\ max_loops = 0
    /\ Blank

\* PlanApp::set_questions(questions)
AppSetQuestions ==
    /\ workflow = "app"
    /\ \E qs \in QuestionLists : papp' = SetQuestions(papp, qs)
    /\ UNCHANGED <<appFrame, result>>

\* PlanApp::submit_answer
AppSubmitAnswer ==
    /\ workflow = "app"
    /\ papp' = SubmitAnswer(papp)
    /\ result' = SubmitBranch(papp)
    /\ UNCHANGED appFrame

\* PlanApp::next_question, prev_question
AppMoveQuestion ==
    /\ workflow = "app"
    /\ \E forward \in BOOLEAN :
        papp' = IF forward THEN NextQuestion(papp) ELSE PrevQuestion(papp)
    /\ UNCHANGED <<appFrame, result>>

\* PlanApp::next_option, prev_option
AppMoveOption ==
    /\ workflow = "app"
    /\ \E forward \in BOOLEAN :
        papp' = IF forward THEN NextOption(papp) ELSE PrevOption(papp)
    /\ UNCHANGED <<appFrame, result>>

\* PlanApp::enter_editing, exit_editing
AppEditing ==
    /\ workflow = "app"
    /\ \E enter \in BOOLEAN :
        papp' = IF enter THEN EnterEditing(papp) ELSE ExitEditing(papp)
    /\ UNCHANGED <<appFrame, result>>

\* the key i of collect_answers, pressed in Normal mode
AppKeyI ==
    /\ workflow = "app" /\ papp.input_mode = "Normal"
    /\ papp' = KeyI(papp)
    /\ UNCHANGED <<appFrame, result>>

\* PlanApp::enter_char(c)
AppEnterChar ==
    /\ workflow = "app"
    /\ Len(papp.freeform_input) < MaxInput
    /\ \E c \in {"x", "y"} : papp' = EnterChar(papp, c)
    /\ UNCHANGED <<appFrame, result>>

\* PlanApp::delete_char
AppDeleteChar ==
    /\ workflow = "app"
    /\ papp' = DeleteChar(papp)
    /\ UNCHANGED <<appFrame, result>>

AppNext ==
    \/ AppSetQuestions
    \/ AppSubmitAnswer
    \/ AppMoveQuestion
    \/ AppMoveOption
    \/ AppEditing
    \/ AppKeyI
    \/ AppEnterChar
    \/ AppDeleteChar

AppSpec == AppInit /\ [][AppNext]_vars

(***************************************************************************)
(* One turn of build::run without the keyboard: every output a child can   *)
(* exit with is classified by run_claude_iteration and handled by the      *)
(* match of the retry loop.                                                *)
(***************************************************************************)
retryFrame == <<workflow, max_loops, interrupted, planVars, observed, cleanups,
                normalized, keys>>

RetryInit ==
    /\ workflow = "retry" /\ pc = "launch" /\ max_loops = 1
    /\ Blank

\* the turn starts: increment_loop, retry_count = 0, first attempt spawned
RetryStartTurn ==
    /\ workflow = "retry" /\ pc = "launch"
    /\ app' = [app EXCEPT !.loop_count = @ + 1]
    /\ retry_count' = 0
    /\ SpawnChild
    /\ pc' = "running"
    /\ UNCHANGED <<retryFrame, delay, attempts, delays, turn_end, output>>

\* the child exits with output o
RetryChildExited(o) ==
    /\ workflow = "retry" /\ pc = "running"
    /\ children' = children - 1
    /\ output' = Some(o)
    /\ HandleResult(Classify(o))
    /\ UNCHANGED <<retryFrame, delays, spawned, spawn_total>>

RetryChildExit == \E o \in ChildOutputs : RetryChildExited(o)

\* the backoff wait reaches its deadline: the next attempt is spawned
RetryBackoffDeadline ==
    /\ workflow = "retry" /\ pc = "backoff"
    /\ delays' = Append(delays, delay)
    /\ SpawnChild
    /\ pc' = "running"
    /\ UNCHANGED <<retryFrame, app, retry_count, delay, attempts, turn_end, output>>

RetryNext == RetryStartTurn \/ RetryChildExit \/ RetryBackoffDeadline

RetrySpec == RetryInit /\ [][RetryNext]_vars

(***************************************************************************)
(* normalize_json_with_haiku on its own.  A String is the sequence of its  *)
(* tokens: " " is a run of whitespace, "fence" the three backticks of a code fence, "json" the      *)
(* language tag after a fence, "{" an opening brace, "x" any other text.   *)
(***************************************************************************)
OutputTokens == {" ", "fence", "json", "{", "x"}

\* every stdout of the secondary process of at most MaxOut tokens
HaikuOutputs == UNION {[1..n -> OutputTokens] : n \in 0..MaxOut}

\* the raw outputs handed to the function
RawOutputs == {<<"x">>, <<"{", "x">>}

\* str::trim_start
RECURSIVE TrimStart(_)
TrimStart(str) ==
    IF str # <<>> /\ Head(str) = " " THEN TrimStart(Tail(str)) ELSE str

\* str::trim_end
RECURSIVE TrimEnd(_)
TrimEnd(str) ==
    IF str # <<>> /\ str[Len(str)] = " "
    THEN TrimEnd(SubSeq(str, 1, Len(str) - 1)) ELSE str

\* str::trim
Trim(str) == TrimEnd(TrimStart(str))

\* str::starts_with
StartsWith(str, prefix) ==
    Len(str) >= Len(prefix) /\ SubSeq(str, 1, Len(prefix)) = prefix

\* str::strip_prefix
StripPrefix(str, prefix) ==
    IF StartsWith(str, prefix)
    THEN Some(SubSeq(str, Len(prefix) + 1, Len(str))) ELSE None

\* str::strip_suffix
StripSuffix(str, suffix) ==
    IF /\ Len(str) >= Len(suffix)
       /\ SubSeq(str, Len(str) - Len(suffix) + 1, Len(str)) = suffix
    THEN Some(SubSeq(str, 1, Len(str) - Len(suffix))) ELSE None

\* Result<String, NormalizationError>
NormOk(text) == [ok |-> TRUE, text |-> text]

NormErr(message, raw_output) ==
    [ok |-> FALSE, message |-> message, raw_output |-> raw_output]

\* lines 144-160: the text between the code fences, if there are any
StripFences(stdout) ==
    LET trimmed == Trim(stdout) IN
    IF StartsWith(trimmed, <<"fence">>)
    THEN LET with_tag == StripPrefix(trimmed, <<"fence", "json">>)
             bare == StripPrefix(trimmed, <<"fence">>)
             without_prefix == IF with_tag # None THEN with_tag[1]
                               ELSE IF bare # None THEN bare[1] ELSE trimmed
             without_suffix == StripSuffix(without_prefix, <<"fence">>)
         IN  Trim(IF without_suffix # None THEN without_suffix[1]
                  ELSE without_prefix)
    ELSE trimmed

\* a normalize_json_with_haiku that returns what is between the fences
\* without looking at it
NormalizeJsonWithHaiku_NoValidation(raw_output, launch, stdout) ==
    IF launch = "spawn_failed" THEN NormErr("spawn", raw_output)
    ELSE IF launch = "wait_failed" THEN NormErr("output", raw_output)
    ELSE NormOk(StripFences(stdout))

\* a normalize_json_with_haiku whose error carries what the secondary process
\* wrote
NormalizeJsonWithHaiku_ErrCarriesStdout(raw_output, launch, stdout) ==
    IF launch = "spawn_failed" THEN NormErr("spawn", raw_output)
    ELSE IF launch = "wait_failed" THEN NormErr("output", raw_output)
    ELSE LET json_str == StripFences(stdout) IN
         IF ~StartsWith(json_str, <<"{">>)
         THEN NormErr("not_json", stdout)
         ELSE NormOk(json_str)

\* normalize_json_with_haiku(raw_output, _): launch is what became of the
\* secondary process ("spawn_failed", "wait_failed", "ok"), stdout what it wrote
NormalizeJsonWithHaiku(raw_output, launch, stdout) ==
    IF launch = "spawn_failed" THEN NormErr("spawn", raw_output)
    ELSE IF launch = "wait_failed" THEN NormErr("output", raw_output)
    ELSE LET json_str == StripFences(stdout) IN
         IF ~StartsWith(json_str, <<"{">>)
         THEN NormErr("not_json", raw_output)
         ELSE NormOk(json_str)

NormalizeInit ==
    /\ workflow = "normalize" /\ pc = "ready" /\ max_loops = 0
    /\ Blank

\* a call whose secondary process does not start or whose output cannot be
\* collected
NormalizeCallFails ==
    /\ workflow = "normalize" /\ normalized = None
    /\ \E raw_output \in RawOutputs, launch \in {"spawn_failed", "wait_failed"} :
          normalized' = Some([raw_output |-> raw_output, launch |-> launch,
                              stdout |-> <<>>,
                              result |-> NormalizeJsonWithHaiku(raw_output, launch, <<>>)])
    /\ UNCHANGED <<workflow, pc, children, buildVars, spawn_total, interrupted,
                   planVars, observed, cleanups, output, keys>>

\* a call whose secondary process exits with stdout
NormalizeCallReturns ==
    /\ workflow = "normalize" /\ normalized = None
    /\ \E raw_output \in RawOutputs, stdout \in HaikuOutputs :
          normalized' = Some([raw_output |-> raw_output, launch |-> "ok",
                              stdout |-> stdout,
                              result |-> NormalizeJsonWithHaiku(raw_output, "ok", stdout)])
    /\ UNCHANGED <<workflow, pc, children, buildVars, spawn_total, interrupted,
                   planVars, observed, cleanups, output, keys>>

NormalizeNext == NormalizeCallFails \/ NormalizeCallReturns

NormalizeSpec == NormalizeInit /\ [][NormalizeNext]_vars

(***************************************************************************)
(* collect_answers on its own: one question screen, with every key handler *)
(* of Spec, on question lists that Spec does not show.                      *)
(***************************************************************************)
AskInit ==
    /\ workflow = "ask" /\ pc = "ready" /\ max_loops = 0
    /\ Blank

\* plan::run, lines 220-221: the questions of a response are shown and
\* collect_answers starts
AskShow ==
    /\ workflow = "ask" /\ pc = "ready"
    /\ \E qs \in {<<Q1, Q3>>, <<Q2>>, <<Q4>>} :
          papp' = ResetSubmit(SetQuestions(papp, qs))
    /\ pc' = "asking"
    /\ UNCHANGED <<probe, buildFrame, children, spawn_total, interrupted,
                   session_file, output_file, origin, session, initial_prompt,
                   prompt, next_id, planHistory>>

\* Normal, Up on an empty option list in a build with overflow checks: the
\* process panics inside prev_option
AskOptionPanics ==
    /\ Asking("Normal") /\ workflow = "ask"
    /\ PrevOptionPanics(papp)
    /\ pc' = "panicked"
    /\ UNCHANGED <<probe, buildFrame, children, spawn_total, interrupted,
                   session_file, output_file, origin, session, papp,
                   initial_prompt, prompt, next_id, planHistory>>

AskNext ==
    \/ AskShow
    \/ AskEditEsc
    \/ AskEditEnter
    \/ AskEditBackspace
    \/ AskEditCursor
    \/ AskEditChar
    \/ AskQuit
    \/ AskSubmit
    \/ AskSubmitRefused
    \/ AskEdit
    \/ AskOption
    \/ AskOptionPanics
    \/ AskTab
    \/ AskEnter

AskSpec == AskInit /\ [][AskNext]_vars

(***************************************************************************)
(* build::run with its keyboard: the loop of the command as in Spec, with  *)
(* the log scroll keys, and with every stop, resume and ignored key that   *)
(* was read kept in keys together with the wait that read it.              *)
(***************************************************************************)
keysFrame == <<workflow, max_loops, planVars, observed, cleanups, output,
               normalized>>

\* a key read by the wait named at
Key(at, key) == [at |-> at, key |-> key]

\* the last stop or resume key read while a child was running, "none" if none
LastRunKey(ks) ==
    LET run == SelectSeq(ks, LAMBDA k : k.at = "running")
    IN  IF run = <<>> THEN "none" ELSE run[Len(run)].key

KeysInit ==
    /\ workflow = "keys" /\ pc = "outer" /\ max_loops = MaxLoops
    /\ Blank

\* the outer while condition holds: a turn starts
KeysStartTurn ==
    /\ workflow = "keys" /\ pc = "outer"
    /\ ~app.should_quit /\ app.loop_count < max_loops
    /\ app' = [app EXCEPT !.loop_count = @ + 1]
    /\ retry_count' = 0
    /\ children' = children + 1
    /\ spawned' = 1
    /\ spawn_total' = spawn_total + 1
    /\ attempts' = <<>>
    /\ delays' = <<>>
    /\ turn_end' = "none"
    /\ pc' = "running"
    /\ UNCHANGED <<keysFrame, delay, interrupted, keys>>

\* the outer while condition fails: the command returns
KeysLoopExit ==
    /\ workflow = "keys" /\ pc = "outer"
    /\ app.should_quit \/ app.loop_count >= max_loops
    /\ pc' = "done"
    /\ UNCHANGED <<keysFrame, children, buildVars, spawn_total, interrupted, keys>>

\* a resume key that is read and dropped
KeysRunKey_ResumeIgnored(key) ==
    /\ workflow = "keys" /\ pc = "running"
    /\ key \in {"q", "r"} => Len(keys) < MaxKeys
    /\ keys' = IF key \in {"q", "r"} THEN Append(keys, Key("running", key)) ELSE keys
    /\ CASE key = "CtrlC" ->
              /\ children' = children - 1
              /\ app' = [app EXCEPT !.should_quit = TRUE]
              /\ attempts' = Append(attempts, "Interrupted")
              /\ turn_end' = "Interrupted"
              /\ interrupted' = "running"
              /\ pc' = "outer"
         [] key = "q" ->
              /\ app' = [app EXCEPT !.should_quit = TRUE]
              /\ UNCHANGED <<children, attempts, turn_end, interrupted, pc>>
         [] key = "r" ->
              /\ UNCHANGED <<app, children, attempts, turn_end, interrupted, pc>>
         [] key = "Up" ->
              /\ app' = [app EXCEPT !.log_scroll_offset = IF @ > 0 THEN @ - 1 ELSE 0]
              /\ UNCHANGED <<children, attempts, turn_end, interrupted, pc>>
         [] key = "Down" ->
              /\ app' = [app EXCEPT !.log_scroll_offset =
                            IF @ + 1 <= (IF app.iteration_logs = <<>> THEN 0 ELSE 1)
                            THEN @ + 1 ELSE @]
              /\ UNCHANGED <<children, attempts, turn_end, interrupted, pc>>
    /\ UNCHANGED <<keysFrame, retry_count, delay, delays, spawned, spawn_total>>

\* run_claude_iteration, a key read while the child runs.  Every log of the
\* model is one line long, and before the first log the view is empty.
KeysRunKey(key) ==
    /\ workflow = "keys" /\ pc = "running"
    /\ key \in {"q", "r"} => Len(keys) < MaxKeys
    /\ keys' = IF key \in {"q", "r"} THEN Append(keys, Key("running", key)) ELSE keys
    /\ CASE key = "CtrlC" ->
              /\ children' = children - 1
              /\ app' = [app EXCEPT !.should_quit = TRUE]
              /\ attempts' = Append(attempts, "Interrupted")
              /\ turn_end' = "Interrupted"
              /\ interrupted' = "running"
              /\ pc' = "outer"
         [] key = "q" ->
              /\ app' = [app EXCEPT !.should_quit = TRUE]
              /\ UNCHANGED <<children, attempts, turn_end, interrupted, pc>>
         [] key = "r" ->
              /\ app' = [app EXCEPT !.should_quit = FALSE]
              /\ UNCHANGED <<children, attempts, turn_end, interrupted, pc>>
         [] key = "Up" ->
              /\ app' = [app EXCEPT !.log_scroll_offset = IF @ > 0 THEN @ - 1 ELSE 0]
              /\ UNCHANGED <<children, attempts, turn_end, interrupted, pc>>
         [] key = "Down" ->
              /\ app' = [app EXCEPT !.log_scroll_offset =
                            IF @ + 1 <= (IF app.iteration_logs = <<>> THEN 0 ELSE 1)
                            THEN @ + 1 ELSE @]
              /\ UNCHANGED <<children, attempts, turn_end, interrupted, pc>>
    /\ UNCHANGED <<keysFrame, retry_count, delay, delays, spawned, spawn_total>>

\* the child exits with output o
KeysChildExited(o) ==
    /\ workflow = "keys" /\ pc = "running"
    /\ children' = children - 1
    /\ HandleResult(Classify(o))
    /\ UNCHANGED <<keysFrame, delays, spawned, spawn_total, interrupted, keys>>

\* a backoff wait that handles q, r and Down as the wait for the child does
KeysBackoffKey_LikeRunning(key) ==
    /\ workflow = "keys" /\ pc = "backoff"
    /\ key # "CtrlC" => Len(keys) < MaxKeys
    /\ keys' = IF key # "CtrlC" THEN Append(keys, Key("backoff", key)) ELSE keys
    /\ CASE key = "CtrlC" ->
              /\ app' = [app EXCEPT !.should_quit = TRUE]
              /\ turn_end' = "Interrupted"
              /\ interrupted' = "backoff"
              /\ pc' = "outer"
         [] key = "q" ->
              /\ app' = [app EXCEPT !.should_quit = TRUE]
              /\ UNCHANGED <<turn_end, interrupted, pc>>
         [] key = "r" ->
              /\ app' = [app EXCEPT !.should_quit = FALSE]
              /\ UNCHANGED <<turn_end, interrupted, pc>>
         [] key = "Down" ->
              /\ app' = [app EXCEPT !.log_scroll_offset =
                            IF @ + 1 <= (IF app.iteration_logs = <<>> THEN 0 ELSE 1)
                            THEN @ + 1 ELSE @]
              /\ UNCHANGED <<turn_end, interrupted, pc>>
    /\ UNCHANGED <<keysFrame, children, retry_count, delay, attempts, delays,
                   spawned, spawn_total>>

\* the backoff wait, a key: Ctrl+C leaves the wait and the retry loop, any
\* other key is read and dropped
KeysBackoffKey(key) ==
    /\ workflow = "keys" /\ pc = "backoff"
    /\ key # "CtrlC" => Len(keys) < MaxKeys
    /\ keys' = IF key # "CtrlC" THEN Append(keys, Key("backoff", key)) ELSE keys
    /\ IF key = "CtrlC"
       THEN /\ app' = [app EXCEPT !.should_quit = TRUE]
            /\ turn_end' = "Interrupted"
            /\ interrupted' = "backoff"
            /\ pc' = "outer"
       ELSE UNCHANGED <<app, turn_end, interrupted, pc>>
    /\ UNCHANGED <<keysFrame, children, retry_count, delay, attempts, delays,
                   spawned, spawn_total>>

\* the backoff wait reaches its deadline: stop if asked to, else the next attempt
KeysBackoffDeadline ==
    /\ workflow = "keys" /\ pc = "backoff"
    /\ delays' = Append(delays, delay)
    /\ IF app.should_quit
       THEN /\ turn_end' = "StopRequested"
            /\ pc' = "outer"
            /\ UNCHANGED <<children, spawned, spawn_total>>
       ELSE /\ SpawnChild
            /\ pc' = "running"
            /\ UNCHANGED turn_end
    /\ UNCHANGED <<keysFrame, app, retry_count, delay, attempts, interrupted, keys>>

KeysNext ==
    \/ KeysStartTurn
    \/ KeysLoopExit
    \/ \E key \in {"CtrlC", "q", "r", "Up", "Down"} : KeysRunKey(key)
    \/ \E o \in ChildOutputs : KeysChildExited(o)
    \/ \E key \in {"CtrlC", "q", "r", "Down"} : KeysBackoffKey(key)
    \/ KeysBackoffDeadline

KeysSpec == KeysInit /\ [][KeysNext]_vars

(***************************************************************************)
(* The retry loop of build::run                                            *)
(***************************************************************************)

\* C1: in a build turn every attempt before the last classified one is a
\* TransientError (a non-transient outcome is never followed by another
\* invocation), and when attempts 1..n-1 are transient and attempt n is not,
\* for n in 1..5, exactly n children were spawned, the completed backoff
\* waits are 5, 10, 20, 40 seconds cut to n-1 entries, and the turn has ended
\* with the classification of attempt n.
C1_RetryLadder ==
    (workflow = "build" /\ attempts # <<>>) =>
        LET n == Len(attempts) IN
        /\ \A i \in 1..(n - 1) : attempts[i] = "TransientError"
        /\ (n \in 1..5 /\ attempts[n] # "TransientError") =>
              /\ spawned = n
              /\ delays = SubSeq(<<5, 10, 20, 40>>, 1, n - 1)
              /\ turn_end = attempts[n]
              /\ pc \in {"outer", "done"}

\* four transient attempts, then a success at the fifth
C1_Witness ==
    /\ workflow = "build" /\ Len(attempts) = 5
    /\ attempts[5] = "Success" /\ turn_end = "Success"

\* C2 as stated: a build turn never spawns more than MAX_RETRIES = 5 children.
C2_AtMostFiveInvocations ==
    workflow = "build" => spawned <= MAX_RETRIES

\* C2, amended: a build turn spawns at most MAX_RETRIES + 1 = 6 children (the
\* first attempt and five retries); the turn ends as "max retries exceeded"
\* exactly when six attempts in a row were transient, with no child left, and
\* a sixth transient attempt always ends it so.
C2_AtMostSixInvocations ==
    workflow = "build" =>
        /\ spawned <= MAX_RETRIES + 1
        /\ turn_end = "RetriesExhausted" =>
              /\ spawned = MAX_RETRIES + 1
              /\ Len(attempts) = MAX_RETRIES + 1
              /\ \A i \in 1..Len(attempts) : attempts[i] = "TransientError"
              /\ children = 0
              /\ pc \in {"outer", "done"}
        /\ (Len(attempts) = MAX_RETRIES + 1
              /\ attempts[MAX_RETRIES + 1] = "TransientError") =>
              turn_end = "RetriesExhausted"

\* a turn that ran out of retries
C2_Witness ==
    workflow = "build" /\ turn_end = "RetriesExhausted" /\ pc = "done"

\* C3: once Ctrl+C has been delivered during a backoff wait, whatever the
\* retry count, should_quit is set, the retry loop has been left with no child
\* outstanding and the aborted wait not counted as completed, no turn can
\* start, and no step from then on (the interrupt's own step included) spawns
\* a child.
C3_InterruptInBackoff ==
    /\ [](interrupted = "backoff" =>
            /\ app.should_quit
            /\ pc \in {"outer", "done"}
            /\ children = 0
            /\ Len(delays) = Len(attempts) - 1
            /\ ~ENABLED BuildStartTurn)
    /\ [][interrupted' = "backoff" => spawn_total' = spawn_total]_vars

\* interrupted in the first backoff wait, with retries and loops left
C3_Witness ==
    /\ interrupted = "backoff" /\ pc = "done"
    /\ retry_count = 1 /\ app.loop_count < max_loops

(***************************************************************************)
(* The interview loop of plan::run                                         *)
(***************************************************************************)

\* C4: in a run of plan::run that loaded or created a session, turn_count
\* has grown by exactly the number of turns whose child exited (parsed,
\* unparsable, or finished after q; killed turns not counted).
C4_TurnCountIsCompletedTurns ==
    (workflow = "plan" /\ origin # "none") =>
        session.turn_count = loaded_turns + completed

\* C5: in both workflows at most one child is outstanding, one is outstanding
\* exactly while the loop waits for it, and a child is spawned only from a
\* state with no child outstanding.
C5_AtMostOneChild ==
    /\ [](/\ children \in {0, 1}
          /\ (children = 1) <=> (pc \in {"running", "waiting"}))
    /\ [][spawn_total' # spawn_total => (children = 0 /\ children' = 1)]_vars

\* a retry of the second build turn is running
C5_Witness ==
    /\ workflow = "build" /\ children = 1
    /\ app.loop_count = 2 /\ spawned >= 2 /\ spawn_total >= 3

\* C6: q while a child runs does not kill it, and when that child exits under
\* the stop request the turn is handled as a completed one: in build its
\* result is logged and no other turn starts, in plan the session is advanced
\* and saved before the run returns.
C6_GracefulStopCompletesTurn ==
    [][/\ (pc \in {"running", "waiting"} /\ pc' = pc
              /\ \/ (app'.should_quit /\ ~app.should_quit)
                 \/ (papp'.should_quit /\ ~papp.should_quit)) =>
            children' = children
       /\ (workflow = "build" /\ pc = "running" /\ app.should_quit
              /\ attempts' # attempts /\ interrupted' = interrupted) =>
            /\ Len(app'.iteration_logs) = Len(app.iteration_logs) + 1
            /\ spawn_total' = spawn_total
       /\ (workflow = "plan" /\ pc = "waiting" /\ papp.should_quit
              /\ completed' = completed + 1) =>
            /\ session'.turn_count = session.turn_count + 1
            /\ session_file' = Save(session')
            /\ spawn_total' = spawn_total
            /\ pc' = "idle"]_vars

\* C7: the step that handles Ctrl+C while plan::run waits for its child kills
\* the child, returns from the run without spawning, leaves the session as it
\* was (turn_count not advanced) and writes it to disk, so that
\* load_or_create with resume gives that session back.
C7_InterruptSavesSession ==
    [][(workflow = "plan" /\ pc = "waiting" /\ interrupted' = "waiting") =>
          /\ children' = 0
          /\ spawn_total' = spawn_total
          /\ pc' = "idle" /\ result' = "Ok"
          /\ session' = session
          /\ session'.turn_count = loaded_turns + completed
          /\ session_file' # None
          /\ \A force \in BOOLEAN :
                LET again == LoadOrCreate(session_file', TRUE, force, next_id') IN
                /\ again.ok /\ again.branch = "loaded"
                /\ again.session = session]_vars

\* interrupted in the second turn of a run, after one completed turn
C7_Witness ==
    /\ workflow = "plan" /\ interrupted = "waiting" /\ pc = "idle"
    /\ session.turn_count = 1 /\ completed = 1
    /\ session_file # None /\ session_file[1].turn_count = 1

\* C8: within a run, once a parsed response has declared Complete (with or
\* without a prd) the loop is waiting for the closing key or has returned,
\* no child is outstanding, and no step spawns one.
C8_CompleteIsTerminalInRun ==
    /\ [](complete_seen # "no" =>
             /\ pc \in {"wait_key", "idle"}
             /\ children = 0
             /\ session.last_phase = "Complete")
    /\ [][complete_seen # "no" => spawn_total' = spawn_total]_vars

\* a run ended on a Complete without prd, with turns to spare
C8_Witness ==
    /\ workflow = "plan" /\ complete_seen = "no_prd" /\ pc = "idle"
    /\ exit_reason = "complete" /\ spawn_total < MaxTurns

\* C9: no step spawns a child while the session record on disk has
\* last_phase complete.
C9_NoTurnOnCompleteRecord ==
    [][(workflow = "plan" /\ session_file # None
           /\ PhaseFromJson(session_file[1].last_phase) = "Complete") =>
          spawn_total' = spawn_total]_vars

C11_ConflictLeavesDiskAlone ==
    [][(StoreLoad(FALSE, FALSE) /\ session_file # None) =>
          /\ result' = "SessionExists"
          /\ session_file' = session_file
          /\ output_file' = output_file
          /\ session' = session
          /\ next_id' = next_id]_vars

\* the conflict error has been returned on a record of a session with a turn
C11_Witness ==
    /\ workflow = "store" /\ origin = "conflict" /\ result = "SessionExists"
    /\ session_file # None /\ session_file[1].turn_count = 1

\* C12: every invocation of plan::run without resume and without force while
\* a session record or the output file exists returns OutputExists or
\* SessionExists at once: no terminal has been initialised, no child has been
\* spawned, and the record and the output file are as they were.
C12_ConflictIsTypedError ==
    [][\A request \in BOOLEAN :
         (PlanEntry(FALSE, FALSE, request) /\ (session_file # None \/ output_file)) =>
            /\ result' = IF output_file THEN "OutputExists" ELSE "SessionExists"
            /\ pc' = "idle"
            /\ tui_inits' = 0
            /\ spawn_total' = spawn_total
            /\ children' = 0
            /\ session_file' = session_file
            /\ output_file' = output_file]_vars

\* a second invocation was refused because of the record the first one left
C12_Witness ==
    /\ workflow = "plan" /\ runs = 2 /\ pc = "idle"
    /\ result = "SessionExists" /\ exit_reason = "conflict"
    /\ session_file # None /\ tui_inits = 0

\* C13: every call of load_or_create with force and without resume on an
\* existing record returns Ok with a fresh session (turn_count 0, no answers)
\* whose id is not the id of the record, and the record is gone.
C13_ForceReplacesRecord ==
    [][(StoreLoad(FALSE, TRUE) /\ session_file # None) =>
          /\ result' = "Ok"
          /\ session_file' = None
          /\ session'.turn_count = 0 /\ IsFresh(session')
          /\ session'.answers = <<>>
          /\ session'.id # Deserialize(session_file[1]).id]_vars

\* a second session made by force
C13_Witness ==
    /\ workflow = "store" /\ origin = "forced" /\ result = "Ok"
    /\ session_file = None /\ session = NewSession(2)

C15_FileNeverPartial ==
    workflow = "store" =>
        /\ session_file # None => IsWholeRecord(session_file[1])
        /\ observed # "partial"

\* C16: every call of cleanup returns Ok and leaves no session file, the
\* calls made when the file was already absent included.
C16_CleanupIdempotent ==
    /\ [][StoreCleanup => (result' = "Ok" /\ session_file' = None
                             /\ session' = session)]_vars
    /\ [](cleanups > 0 => (session_file = None /\ result = "Ok"))

\* cleanup called twice in a row after a save
C16_Witness ==
    /\ workflow = "store" /\ cleanups = 2 /\ result = "Ok"
    /\ session_file = None /\ session.turn_count = 1

C18_SubmitReplacesById ==
    /\ [](workflow = "app" =>
            \A i, j \in 1..Len(papp.answers) :
               papp.answers[i].question_id = papp.answers[j].question_id => i = j)
    /\ [][(AppSubmitAnswer /\ CurrentQuestion(papp) # None
              /\ AnswerValue(papp, CurrentQuestion(papp)[1]) # <<>>) =>
            LET q == CurrentQuestion(papp)[1]
                value == AnswerValue(papp, q)
                Of(answers, id) ==
                    {i \in 1..Len(answers) : answers[i].question_id = id}
            IN
            /\ Cardinality(Of(papp'.answers, q.id)) = 1
            /\ \A i \in Of(papp'.answers, q.id) : papp'.answers[i].value = value
            /\ \A i \in 1..Len(papp.answers) :
                  papp.answers[i].question_id # q.id =>
                     papp'.answers[i] = papp.answers[i]]_vars

\* A submitted for q1, q2 answered, then B submitted for q1
C18_Witness ==
    /\ workflow = "app" /\ result = "replaced"
    /\ papp.questions = <<Q1, Q2>> /\ papp.current_question = 0
    /\ papp.answers = <<[question_id |-> "q1", value |-> <<"B">>],
                        [question_id |-> "q2", value |-> <<"x">>]>>

\* C19: the answers of the session never hold two values for one question id.
C19_SessionAnswersUniqueById ==
    workflow = "plan" =>
        \A i, j \in 1..Len(session.answers) :
           session.answers[i].question_id = session.answers[j].question_id => i = j

C21_ErrorEnvelope ==
    /\ \A o \in ChildOutputs :
          (~o.stdout_blank /\ o.decodes /\ ~o.has_payload /\ o.is_error) =>
             Classify(o) = IF o.stdout_retryable
                           THEN Result("TransientError", "api_error_stdout", FALSE)
                           ELSE Result("ClaudeError", "raw", FALSE)
    /\ [][\A o \in ChildOutputs :
            (RetryChildExited(o) /\ o.decodes /\ ~o.has_payload /\ o.is_error) =>
               IF o.stdout_retryable
               THEN /\ attempts' = Append(attempts, "TransientError")
                    /\ retry_count' = retry_count + 1
               ELSE /\ attempts' = Append(attempts, "ClaudeError")
                    /\ pc' = "outer" /\ turn_end' = "ClaudeError"
                    /\ retry_count' = retry_count]_vars
    /\ []((workflow = "retry" /\ turn_end = "ClaudeError") => ~ENABLED RetryNext)

\* an error envelope without indicator ends a turn that had retried twice
C21_Witness ==
    /\ workflow = "retry" /\ pc = "outer" /\ turn_end = "ClaudeError"
    /\ output # None /\ output[1].decodes /\ output[1].is_error
    /\ ~output[1].has_payload /\ ~output[1].stdout_retryable
    /\ attempts = <<"TransientError", "TransientError", "ClaudeError">>
    /\ spawned = 3 /\ children = 0

\* C22: with stdout not blank, an envelope that decodes with a payload is
\* classified Success, one that decodes without payload and without error
\* flag is classified ParseError, and stdout that does not decode is
\* classified ParseError; an attempt classified ParseError ends the turn
\* without a retry.
C22_PayloadOrProtocolError ==
    /\ \A o \in ChildOutputs :
          ~o.stdout_blank =>
             /\ (o.decodes /\ o.has_payload) => Classify(o).kind = "Success"
             /\ (o.decodes /\ ~o.has_payload /\ ~o.is_error) =>
                   Classify(o).kind = "ParseError"
             /\ ~o.decodes => Classify(o).kind = "ParseError"
    /\ [][\A o \in ChildOutputs :
            (RetryChildExited(o) /\ ~o.stdout_blank
                /\ (~o.decodes \/ (~o.has_payload /\ ~o.is_error))) =>
               /\ attempts' = Append(attempts, "ParseError")
               /\ pc' = "outer" /\ turn_end' = "ParseError"
               /\ retry_count' = retry_count]_vars
    /\ [][\A o \in ChildOutputs :
            (RetryChildExited(o) /\ o.decodes /\ o.has_payload) =>
               /\ attempts' = Append(attempts, "Success")
               /\ pc' = "outer" /\ turn_end' = "Success"]_vars
    /\ []((workflow = "retry" /\ turn_end = "ParseError") => ~ENABLED RetryNext)

\* an envelope with neither payload nor error flag ends a turn that had
\* retried once
C22_Witness ==
    /\ workflow = "retry" /\ pc = "outer" /\ turn_end = "ParseError"
    /\ output # None /\ output[1].decodes /\ ~output[1].is_error
    /\ ~output[1].has_payload
    /\ attempts = <<"TransientError", "ParseError">>
    /\ spawned = 2 /\ children = 0

\* C23: build::run starts a turn (counts a loop, leaves the head of its outer
\* loop for a first attempt) only while no stop is requested and loop_count
\* is below max_loops; a Success that declares prd_complete requests the stop
\* itself; once the outer loop is left nothing more happens; with max_loops
\* = 0 no child is ever spawned.
C23_NoTurnAfterStop ==
    /\ [][(workflow = "build"
             /\ (app'.loop_count # app.loop_count
                   \/ (pc = "outer" /\ pc' = "running"))) =>
            (~app.should_quit /\ app.loop_count < max_loops)]_vars
    /\ [][\A o \in ChildOutputs :
            (ChildExited(o) /\ Classify(o).kind = "Success"
                /\ Classify(o).prd_complete) =>
               (app'.should_quit /\ pc' = "outer" /\ turn_end' = "Success")]_vars
    /\ []((workflow = "build" /\ pc = "outer"
             /\ (app.should_quit \/ app.loop_count >= max_loops)) =>
            (~ENABLED BuildStartTurn /\ ENABLED BuildLoopExit))
    /\ [][~(workflow = "build" /\ pc = "done")]_vars
    /\ []((workflow = "build" /\ max_loops = 0) => (spawn_total = 0 /\ children = 0))

\* the loop was left after one successful turn of two allowed, on a stop
\* that no Ctrl+C made
C23_Witness ==
    /\ workflow = "build" /\ pc = "done" /\ max_loops = 2
    /\ app.loop_count = 1 /\ app.should_quit /\ interrupted = "no"
    /\ turn_end = "Success" /\ spawn_total = 1

\* C24: in build::run a turn that ends in ParseError, ClaudeError or with the
\* retries used up leaves the stop request as it was and goes back to the
\* head of the outer loop, where the next turn starts if no stop is requested
\* and the ceiling is not reached; in plan::run every output that does not
\* decode as a response ends the run: no further turn.
C24_FailurePropagation ==
    /\ [][\A o \in ChildOutputs :
            (ChildExited(o) /\ Classify(o).kind \in {"ParseError", "ClaudeError"}) =>
               (pc' = "outer" /\ app'.should_quit = app.should_quit)]_vars
    /\ [][(workflow = "build" /\ pc = "running" /\ turn_end' = "RetriesExhausted") =>
            (pc' = "outer" /\ app'.should_quit = app.should_quit)]_vars
    /\ []((workflow = "build" /\ pc = "outer" /\ ~app.should_quit
              /\ app.loop_count < max_loops) => ENABLED BuildStartTurn)
    /\ [][\A out \in PlanOutputs :
            (PlanChildExited(out) /\ ~papp.should_quit /\ out.kind # "ok") =>
               (pc' = "idle" /\ result' = "InvalidOutput")]_vars

\* C25: an invocation of plan::run without force that finds the artifact at
\* the output path and no session record, with or without resume, takes the
\* work for complete: it returns at once, without entering the loop that
\* spawns the child.
C25_ArtifactAloneMeansComplete ==
    [][\A resume \in BOOLEAN, request \in BOOLEAN :
         (PlanEntry(resume, FALSE, request) /\ output_file /\ session_file = None) =>
            (pc' = "idle" /\ result' = "OutputExists" /\ children' = 0)]_vars

\* C27: normalize_json_with_haiku returns Ok exactly when the secondary
\* process ran and what it wrote, after leading whitespace, an opening code
\* fence with or without its language tag, and whitespace again, goes on with
\* an opening brace; the text returned then starts with that brace and is
\* what was written from there on, less the whitespace at the end and, when an
\* opening fence was taken off, one closing fence; in every other case, the failures to spawn and to collect the output included, it
\* returns an error that carries the raw output it was given.
C27_NormalizeAcceptsOnlyObjects ==
    (workflow = "normalize" /\ normalized # None) =>
       LET n == normalized[1]
           out == n.stdout
           lead == CHOOSE i \in 0..Len(out) :
                      /\ \A k \in 1..i : out[k] = " "
                      /\ i < Len(out) => out[i + 1] # " "
           fenced == lead < Len(out) /\ out[lead + 1] = "fence"
           tagged == fenced /\ lead + 1 < Len(out) /\ out[lead + 2] = "json"
           after == IF tagged THEN lead + 2 ELSE IF fenced THEN lead + 1 ELSE lead
           rest == SubSeq(out, after + 1, Len(out))
           content == CHOOSE i \in 0..Len(rest) :
                         /\ \A k \in 1..i : rest[k] = " "
                         /\ i < Len(rest) => rest[i + 1] # " "
           brace == content < Len(rest) /\ rest[content + 1] = "{"
       IN
       /\ n.result.ok <=> (n.launch = "ok" /\ brace)
       /\ n.result.ok =>
             /\ Head(n.result.text) = "{"
             /\ n.result.text[Len(n.result.text)] # " "
             /\ LET from == after + content + 1
                    to == from + Len(n.result.text) - 1
                    closing == {k \in (to + 1)..Len(out) : out[k] = "fence"}
                IN  /\ to <= Len(out)
                    /\ SubSeq(out, from, to) = n.result.text
                    /\ \A k \in (to + 1)..Len(out) : out[k] \in {" ", "fence"}
                    /\ Cardinality(closing) =
                          IF fenced /\ Trim(out)[Len(Trim(out))] = "fence"
                          THEN 1 ELSE 0
       /\ ~n.result.ok => n.result.raw_output = n.raw_output

\* whitespace, a fence with its tag, an object, the closing fence: accepted
C27_Witness ==
    /\ workflow = "normalize" /\ normalized # None
    /\ normalized[1].stdout = <<"fence", "json", " ", "{", "fence">>
    /\ normalized[1].result = NormOk(<<"{">>)

\* C26: plan::run fails with InvalidOutput on a response only after
\* normalize_json_with_haiku was called on it and failed too.
C26_RepairBeforeFatal ==
    (workflow = "plan" /\ result = "InvalidOutput") =>
        (normalized # None /\ ~normalized[1].result.ok)

C29_NoOptionsIsFreeform ==
    /\ []((workflow = "app" /\ papp.input_mode = "Normal"
              /\ CurrentQuestion(papp) # None
              /\ CurrentQuestion(papp)[1].options = None) =>
            ENABLED (AppKeyI /\ papp'.input_mode = "Editing"))
    /\ [][(AppSubmitAnswer /\ CurrentQuestion(papp) # None
              /\ CurrentQuestion(papp)[1].options = None) =>
            LET q == CurrentQuestion(papp)[1]
                now == {i \in 1..Len(papp'.answers) :
                           papp'.answers[i].question_id = q.id}
            IN  IF papp.freeform_input # <<>>
                THEN /\ Cardinality(now) = 1
                     /\ \A i \in now : papp'.answers[i].value = papp.freeform_input
                ELSE papp' = papp]_vars

\* the question without options and with allow_freeform false, shown second,
\* answered x in Normal mode
C29_Witness ==
    /\ workflow = "app" /\ result = "pushed"
    /\ papp.questions = <<Q1, Q2>> /\ papp.current_question = 1
    /\ ~Q2.allow_freeform /\ Q2.options = None
    /\ papp.input_mode = "Normal" /\ papp.freeform_input = <<"x">>
    /\ papp.answers = <<[question_id |-> "q2", value |-> <<"x">>]>>

\* C30: a turn of the planning loop whose output parses as a response leaves
\* session.last_phase and PlanApp.phase equal to the phase the response
\* declares, whatever the phase before the turn was.
C30_PhaseIsContentDriven ==
    [][\A out \in PlanOutputs :
          (PlanChildExited(out) /\ ~papp.should_quit /\ out.kind = "ok") =>
             /\ session'.last_phase = out.response.phase
             /\ papp'.phase = out.response.phase
             /\ session'.turn_count = session.turn_count + 1]_vars

\* the second turn declares Exploring after a first turn that asked questions
\* and got answers: a step back that is taken as declared
C30_Witness ==
    /\ workflow = "plan" /\ session.turn_count = 2
    /\ session.answers # <<>>
    /\ session.last_phase = "Exploring" /\ papp.phase = "Exploring"

\* C31: in build::run loop_count never exceeds max_loops, it grows by exactly
\* one in the step that starts a turn (the loop leaves its head and spawns the
\* first attempt) and by nothing in any other step, retries included.
C31_OneCountPerTurn ==
    /\ [](workflow = "build" => app.loop_count <= max_loops)
    /\ [][workflow = "build" =>
            IF pc = "outer" /\ pc' = "running"
            THEN app'.loop_count = app.loop_count + 1
            ELSE app'.loop_count = app.loop_count]_vars

\* the first turn took two retries and is over, and the counter stands at one
C31_Witness ==
    /\ workflow = "build" /\ pc = "outer"
    /\ retry_count = 2 /\ spawned = 3 /\ turn_end = "Success"
    /\ app.loop_count = 1

\* C32: while a child of build::run is in flight the last stop or resume key
\* read decides: should_quit is set exactly when that key was q, so q followed
\* by r leaves no stop request.  When the child then exits and ends the turn,
\* the loop is back at its head with no stop request unless the payload
\* declared the work complete, and at the head of the loop with no stop
\* request and the ceiling not reached the next turn starts and the command
\* does not return.
C32_ResumeCancelsStop ==
    /\ []((workflow = "keys" /\ pc = "running") =>
             (app.should_quit <=> LastRunKey(keys) = "q"))
    /\ [][\A o \in ChildOutputs :
            (KeysChildExited(o) /\ LastRunKey(keys) = "r"
                /\ Classify(o).kind # "TransientError") =>
               /\ pc' = "outer"
               /\ app'.should_quit <=> Classify(o).prd_complete]_vars
    /\ []((workflow = "keys" /\ pc = "outer" /\ ~app.should_quit
              /\ app.loop_count < max_loops) =>
             (ENABLED KeysStartTurn /\ ~ENABLED KeysLoopExit))

\* q and then r were pressed during the first turn, and the second turn is
\* running
C32_Witness ==
    /\ workflow = "keys" /\ pc = "running"
    /\ keys = <<Key("running", "q"), Key("running", "r")>>
    /\ app.loop_count = 2 /\ ~app.should_quit

\* C33: in build::run no step taken with should_quit set spawns a child
\* process, and outside the wait for a running child (the only place where r
\* cancels the request) should_quit stays set: a TransientError that arrives
\* after a stop request goes through its backoff wait and then leaves the retry
\* loop without another invocation.
C33_NoSpawnAfterStop ==
    /\ [][(workflow = "build" /\ app.should_quit) =>
            /\ spawn_total' = spawn_total
            /\ children' <= children
            /\ pc # "running" => app'.should_quit]_vars
    /\ [][\A o \in ChildOutputs :
            (ChildExited(o) /\ app.should_quit
                /\ Classify(o).kind = "TransientError") =>
               (pc' \in {"backoff", "outer"} /\ app'.should_quit)]_vars

\* q was pressed during an attempt that then failed with a transient error:
\* the backoff wait ran to its deadline and the turn ended with one child
\* spawned and no retry
C33_Witness ==
    /\ workflow = "build" /\ pc = "outer"
    /\ turn_end = "StopRequested" /\ interrupted = "no"
    /\ attempts = <<"TransientError">> /\ spawned = 1 /\ children = 0
    /\ delays = <<BackoffDelay(1)>> /\ app.should_quit

\* C34: a key other than Ctrl+C read during a backoff wait of build::run (q,
\* r, Down) changes nothing of the loop: should_quit, loop_count, the logs and
\* the scroll position, retry_count, the length of the wait, the attempts and
\* the place in the loop are as before.  Ctrl+C sets should_quit and leaves the
\* retry loop.
C34_BackoffDropsKeys ==
    /\ [][\A key \in {"q", "r", "Down"} :
            KeysBackoffKey(key) =>
               UNCHANGED <<app, retry_count, delay, delays, attempts, turn_end,
                           pc, children, spawned, spawn_total, interrupted>>]_vars
    /\ [][KeysBackoffKey("CtrlC") =>
            (app'.should_quit /\ pc' = "outer" /\ children' = children)]_vars

\* q was pressed during the first backoff wait of a turn and the retry is
\* running all the same, with no stop request
C34_Witness ==
    /\ workflow = "keys" /\ pc = "running"
    /\ keys = <<Key("backoff", "q")>>
    /\ spawned = 2 /\ retry_count = 1 /\ ~app.should_quit

\* C35: the answers of an Asking round go to the agent exactly once.  The
\* submit leaves them in PlanApp.answers at the head of the loop of a session
\* that is not fresh; the step that builds the next prompt and launches the
\* child makes it the continuation prompt listing exactly those answers and
\* empties PlanApp.answers; a prompt built with PlanApp.answers empty lists no
\* answers; and while a child runs PlanApp.answers is empty, so every round
\* of questions starts from none.
C35_AnswersDeliveredOnce ==
    /\ []((workflow = "plan" /\ pc = "top" /\ papp.answers # <<>>) =>
             ~IsFresh(session))
    /\ []((workflow = "plan" /\ pc = "waiting") => papp.answers = <<>>)
    /\ [][AskSubmit =>
            (pc' = "top" /\ papp.answers # <<>> /\ papp'.answers = papp.answers)]_vars
    /\ [][(workflow = "plan" /\ pc = "top" /\ pc' = "waiting") =>
            /\ papp'.answers = <<>>
            /\ IF papp.answers # <<>>
               THEN prompt' = Prompt("continuation", papp.answers)
               ELSE prompt'.answers = <<>> /\ prompt'.kind # "continuation"]_vars

\* one run: the first turn asked, the second prompt carried the answers, and
\* the third prompt carries none although the session holds them
C35_Witness ==
    /\ workflow = "plan" /\ pc = "waiting" /\ runs = 1
    /\ spawn_total = 3 /\ completed = 2
    /\ session.answers # <<>> /\ prompt = Prompt("continue", <<>>)

\* C36: the first prompt a run of plan::run sends is the resume prompt when
\* the session it loaded has turns, and the initial prompt when the session is
\* fresh; the initial prompt is sent at no other time.
C36_ResumePromptOnResume ==
    [][(workflow = "plan" /\ pc = "top" /\ pc' = "waiting") =>
          /\ (completed = 0 /\ ~IsFresh(session)) => prompt'.kind = "resume"
          /\ prompt'.kind = "initial" <=> (completed = 0 /\ IsFresh(session))]_vars

\* C37: when plan::run has returned after at least one turn of the run and no
\* response of the run declared Complete, the session file holds the session
\* as it was in memory at the return, the answers added since the last save
\* included.
C37_ExitSavesSession ==
    (workflow = "plan" /\ pc = "idle" /\ completed >= 1 /\ complete_seen = "no"
        /\ result \in {"Ok", "InvalidOutput"}) =>
       session_file = Save(session)

\* C38: once plan::run is in its main loop PlanApp.turn_count equals
\* session.turn_count: at the head of the loop, while the child runs, on the
\* question screen and on the final screen, in fresh and in resumed sessions
\* and after turns whose output did not parse.
C38_TurnCountsAgree ==
    (workflow = "plan" /\ pc \in {"top", "waiting", "asking", "wait_key"}) =>
       papp.turn_count = session.turn_count

\* C39: on the question screen the input mode is Editing only while a question
\* is shown that has allow_freeform set or no options; a step that begins and
\* ends in Editing mode leaves the question list and the current question as
\* they are; and every answer recorded for a question that has options and
\* allow_freeform false, on the screen or handed to the session, is one of
\* the options of that question.
C39_EditingOnlyOnFreeform ==
    /\ []((workflow = "ask" /\ papp.input_mode = "Editing") =>
             /\ pc = "asking"
             /\ CurrentQuestion(papp) # None
             /\ \/ CurrentQuestion(papp)[1].allow_freeform
                \/ CurrentQuestion(papp)[1].options = None)
    /\ [][(workflow = "ask" /\ papp.input_mode = "Editing"
              /\ papp'.input_mode = "Editing") =>
            /\ papp'.questions = papp.questions
            /\ papp'.current_question = papp.current_question]_vars
    /\ [](workflow = "ask" =>
             \A q \in {Q3, Q4} : \A answers \in {papp.answers, session.answers} :
                \A i \in 1..Len(answers) :
                   answers[i].question_id = q.id =>
                      \E k \in 1..Len(q.options[1]) :
                         answers[i].value = q.options[1][k])

\* the first question answered by typing x, the second, which takes no
\* freeform input, answered with its option D, and both handed to the session
C39_Witness ==
    /\ workflow = "ask" /\ pc = "top"
    /\ session.answers = <<[question_id |-> "q1", value |-> <<"x">>],
                           [question_id |-> "q3", value |-> <<"D">>]>>

\* C40: on the question screen no call of next_option or prev_option fails;
\* for a current question with L options the selected index is below L (with
\* no option to select it stays 0); and with L > 0 a Down key selects the
\* next index and wraps from L - 1 to 0, an Up key the previous one and wraps
\* from 0 to L - 1.
C40_OptionsCycle ==
    /\ [](workflow = "ask" => pc # "panicked")
    /\ []((workflow = "ask" /\ pc = "asking" /\ CurrentQuestion(papp) # None
              /\ CurrentQuestion(papp)[1].options # None) =>
             LET L == Len(CurrentQuestion(papp)[1].options[1])
             IN  SelectedOr0(papp) \in 0..(IF L = 0 THEN 0 ELSE L - 1))
    /\ [][(AskOption /\ workflow = "ask" /\ CurrentQuestion(papp) # None
              /\ CurrentQuestion(papp)[1].options # None
              /\ CurrentQuestion(papp)[1].options[1] # <<>>) =>
            LET L == Len(CurrentQuestion(papp)[1].options[1])
                i == SelectedOr0(papp)
            IN  papp'.selected \in {Some((i + 1) % L), Some((i + L - 1) % L)}]_vars

====
